---- MODULE Spec2Model ----
(***************************************************************************)
(* Model of the code review tool's orchestrator (CodeReviewTool) : the     *)
(* analyze() pipeline, runAnalyzers' failure isolation, the scoring engine *)
(* (calculateScore / getAnalyzerScore / getGrade) and rule validation.     *)
(*                                                                         *)
(* The repository carries two versions of CodeReviewTool:                  *)
(*   variant "lib" : src/lib/index.js                                      *)
(*   variant "p1"  : src/unnamed/part_001, lines 1446-1915                 *)
(* Both are modelled; the variable `variant` selects one per behaviour.    *)
(*                                                                         *)
(* Numbers.  A JavaScript number that can be fractional (scores,           *)
(* percentages) is modelled exactly as an integer count of 1/Scale units,  *)
(* so 92 is Num(92) = 9200 and 78.1 is 7810.  Counts, array lengths and    *)
(* weights are plain integers.  NaN is a reserved integer below every      *)
(* value the arithmetic can produce; the Math* operators propagate it and  *)
(* every comparison with it is false, as in JavaScript.  Floating point    *)
(* rounding error is not modelled: arithmetic is exact.                    *)
(*                                                                         *)
(* Objects.  A JavaScript object is a function from field names to values; *)
(* a field that is absent from the domain reads as undefined.  An array    *)
(* of which the code only uses .length is modelled by that length.         *)
(***************************************************************************)
EXTENDS Integers, Sequences, FiniteSets, TLC

VARIABLES
  variant,           \* which version of CodeReviewTool runs: "lib" or "p1"
  project,           \* the project under analysis: decides what each analyzer returns
  throwing,          \* the analyzer and renderer methods that throw
  options,           \* the options analyze() is called with
  rulesConfig,       \* configManager.getRules() after loadConfig: {rules, categories}
  enabledAnalyzers,  \* configManager.getEnabledAnalyzers()
  pc,                \* position of the running operation
  idx,               \* runAnalyzers: index of the next requested analyzer
  findings,          \* the findings map (local of runAnalyzers / analyze)
  executed,          \* history: the analyzer names whose method was invoked, in order
  score,             \* analyze's local `score`, the result of calculateScore
  reports,           \* analyze's local `reports`, the result of generateReports
  results,           \* this.results
  analyzer,          \* getAnalyzerScore's first argument
  finding,           \* getAnalyzerScore's second argument
  subScore,          \* the value getAnalyzerScore returned
  coverageData,      \* calculateWeightedCoverage's argument: file path -> coverage entry
  weightedCoverage,  \* the record calculateWeightedCoverage returned
  validation,        \* the record validateRules returned
  rules,             \* RuleEngine's this.rules
  filePath,          \* getRulesForFile's argument
  rulesForFile,      \* the list getRulesForFile returned
  answered,          \* history: path -> what getRulesForFile returned for it since
                     \* the rule list last changed
  outcome,           \* how the last RuleEngine operation ended: "returned" or "threw"
  enabledReporters,  \* generateReports: the list its loop runs over
  invoked,           \* history: the report types whose renderer was called, in order
  running,           \* runAnalyzers: the analyzer methods called and not yet settled
  sourceFiles,       \* checkCustomRules: the files getSourceFiles returns, {path, content}
  fileIdx,           \* checkCustomRules: index of the file being scanned
  ruleIdx,           \* checkCustomRules: index of the rule being matched in rulesForFile
  lastIndex,         \* checkCustomRules: regex.lastIndex of the rule being matched
  match,             \* checkCustomRules: what the last regex.exec returned
  violations,        \* checkCustomRules: the violations array
  customRules        \* the record checkCustomRules returned

\* the variables of CodeReviewTool's operations
toolVars == <<variant, project, throwing, options, rulesConfig, enabledAnalyzers, pc, idx,
              findings, executed, score, reports, results, analyzer, finding, subScore>>

\* the variables of AnalyzerBase.calculateWeightedCoverage and of RuleEngine
engineVars == <<coverageData, weightedCoverage, validation, rules, filePath,
                rulesForFile, answered, outcome>>

\* the variables of generateReports' loop, of runAnalyzers' awaits and of
\* AnalyzerBase.checkCustomRules
auxVars == <<enabledReporters, invoked, running, sourceFiles, fileIdx, ruleIdx,
             lastIndex, match, violations, customRules>>

vars == <<toolVars, engineVars, auxVars>>

----------------------------------------------------------------------------
(* Bounds *)

MaxCount == 3        \* counts are drawn from 0..MaxCount and BigCount
BigCount == 100      \* a count large enough to drive every penalty past the clamp
MaxAnalyzers == 2    \* longest requested analyzer list
MaxRules == 2        \* longest rule list
MaxVaried == 1       \* analyzers whose finding varies freely in a calculateScore input

----------------------------------------------------------------------------
(* JavaScript values *)

Scale == 100

NaN == 0 - (Scale * Scale * Scale * Scale)

Num(n) == n * Scale

IsInteger(x) == x # NaN /\ x % Scale = 0

EmptyObject == [k \in {} |-> 0]

Has(o, k) == k \in DOMAIN o

\* o.k || 0 for a numeric or absent field
OrZero(o, k) == IF Has(o, k) THEN o[k] ELSE 0

\* a.length of an array field, or 0 when the guard `if (o.k)` skips it
LengthIfPresent(o, k) == IF Has(o, k) THEN o[k] ELSE 0

MathMax(a, b) == IF a = NaN \/ b = NaN THEN NaN ELSE IF a >= b THEN a ELSE b

MathMin(a, b) == IF a = NaN \/ b = NaN THEN NaN ELSE IF a <= b THEN a ELSE b

\* Math.round: nearest integer, halves towards +Infinity
MathRound(x) == IF x = NaN THEN NaN ELSE ((x + Scale \div 2) \div Scale) * Scale

\* o1 extended by the fields of o2 it lacks
Merge(o1, o2) == [k \in (DOMAIN o1) \cup (DOMAIN o2) |-> IF k \in DOMAIN o1 THEN o1[k] ELSE o2[k]]

\* a value that is a number, where the field may also hold an object
IsNumber(v) == Has(v, "num")

\* x * num / den
Times(x, num, den) == IF x = NaN THEN NaN ELSE (x * num) \div den

\* obj[key] = value
Put(obj, key, value) == [k \in (DOMAIN obj) \cup {key} |-> IF k = key THEN value ELSE obj[k]]

----------------------------------------------------------------------------
(* Scoring engine: getAnalyzerScore, case by case.  A case that is the     *)
(* same text in both versions is one definition.                           *)

\* a variant of eslintScore that counts a warning as much as an error
eslintScoreFullWarnings(f) ==
  LET issues == Num(OrZero(f, "errors")) + Num(OrZero(f, "warnings"))
  IN  MathMax(0, Num(100) - issues * 2)

\* case 'eslint'
eslintScore(f) ==
  LET issues == Num(OrZero(f, "errors")) + (Num(OrZero(f, "warnings")) * 5) \div 10
  IN  MathMax(0, Num(100) - issues * 2)

\* a variant of typescriptScore with the branches exchanged
typescriptScoreInverted(f) ==
  IF Has(f, "errors") /\ f.errors > 0 THEN Num(100) ELSE 0

\* case 'typescript': undefined > 0 is false
typescriptScore(f) ==
  IF Has(f, "errors") /\ f.errors > 0 THEN 0 ELSE Num(100)

\* case 'security'
securityScore(f) ==
  LET vulns == OrZero(f, "vulnerabilities")
  IN  MathMax(0, Num(100) - Num(vulns * 20))

\* case 'tests' of src/lib/index.js.  A field that holds either a number
\* or an object holds the number n as [num |-> n]; Math.min of an object is NaN
testsScore(f) ==
  LET coverage == IF ~Has(f, "coverage") THEN 0
                  ELSE IF IsNumber(f.coverage) THEN f.coverage.num ELSE NaN
  IN  MathMin(Num(100), coverage)

\* case 'complexity': findings.score || 100, so a score of 0 reads as absent
complexityScore(f) ==
  IF Has(f, "score") /\ f.score # 0 THEN f.score ELSE Num(100)

\* a sub-check record that is present and whose success is not truthy
SubCheckFailed(f, k) == Has(f, k) /\ ~(Has(f[k], "success") /\ f[k].success)

\* case 'dependencies'
dependenciesScore(f) ==
  LET d1 == IF SubCheckFailed(f, "circularDependencies") THEN 30 ELSE 0
      d2 == IF SubCheckFailed(f, "outdatedPackages") THEN 20 ELSE 0
      d3 == IF SubCheckFailed(f, "securityVulnerabilities") THEN 50 ELSE 0
      depScore == 100 - d1 - d2 - d3
  IN  MathMax(0, Num(depScore))

\* findings.coverage && findings.coverage.statements is truthy.  statements
\* is either a number (non-zero is truthy) or an object {pct}
HasStatements(f) ==
  /\ Has(f, "coverage")
  /\ ~IsNumber(f.coverage)
  /\ Has(f.coverage, "statements")
  /\ f.coverage.statements # [num |-> 0]

\* findings.coverage.statements.pct: undefined when statements is a number
\* or an object without pct
StatementsPct(f) ==
  IF Has(f.coverage.statements, "pct") THEN f.coverage.statements.pct ELSE NaN

\* case 'coverage' (src/lib/index.js only); Math.min(100, undefined) is NaN
coverageScore(f) ==
  IF HasStatements(f)
    THEN MathMin(Num(100), StatementsPct(f))
    ELSE IF Has(f, "success") /\ f.success THEN Num(100) ELSE 0

\* case 'performance'
performanceScore(f) ==
  LET perfScore == 100 - LengthIfPresent(f, "performanceIssues") * 10
  IN  MathMax(0, Num(perfScore))

\* case 'architecture'
architectureScore(f) ==
  LET archScore == 100 - LengthIfPresent(f, "antiPatterns") * 15
  IN  MathMax(0, Num(archScore))

\* case 'bug-detection'
bugDetectionScore(f) ==
  LET bugScore == 100 - LengthIfPresent(f, "bugs") * 25
                      - LengthIfPresent(f, "potentialIssues") * 5
                      - LengthIfPresent(f, "securityRisks") * 30
                      - LengthIfPresent(f, "performanceIssues") * 10
  IN  MathMax(0, Num(bugScore))

\* case 'test-cases' of src/lib/index.js.  testQuality is modelled by the
\* number of its entries whose quality is 'POOR'
testCasesScore(f) ==
  LET poorQualityTests == LengthIfPresent(f, "testQuality")
      testScore == Num(100 - LengthIfPresent(f, "missingTests") * 10 - poorQualityTests * 20)
      capped == IF HasStatements(f) THEN MathMin(testScore, StatementsPct(f)) ELSE testScore
  IN  MathMax(0, capped)

\* a variant of calculateWeightedTestScore whose boost starts above 70
calculateWeightedTestScoreStrict(f) ==
  IF Has(f, "weightedCoverage") /\ Has(f.weightedCoverage, "weightedScore")
    THEN MathMin(Num(100), f.weightedCoverage.weightedScore)
    ELSE LET statementsCoverage ==
               IF Has(f, "coverage") /\ ~IsNumber(f.coverage) /\ Has(f.coverage, "statements")
                 THEN IF IsNumber(f.coverage.statements) THEN f.coverage.statements.num ELSE NaN
                 ELSE 0
         IN  IF statementsCoverage > Num(70)
               THEN MathMin(Num(100), Times(statementsCoverage, 11, 10))
               ELSE IF statementsCoverage >= Num(40)
                 THEN statementsCoverage
                 ELSE MathMax(0, Times(statementsCoverage, 8, 10))

\* calculateWeightedTestScore of part_001.  statementsCoverage is
\* findings.coverage.statements || 0 when coverage is an object; an
\* object-valued statements fails every comparison and multiplies to NaN.
\* The inputs are multiples of 1/10, so * 1.1 and * 0.8 are exact
calculateWeightedTestScore(f) ==
  IF Has(f, "weightedCoverage") /\ Has(f.weightedCoverage, "weightedScore")
    THEN MathMin(Num(100), f.weightedCoverage.weightedScore)
    ELSE LET statementsCoverage ==
               IF Has(f, "coverage") /\ ~IsNumber(f.coverage) /\ Has(f.coverage, "statements")
                 THEN IF IsNumber(f.coverage.statements) THEN f.coverage.statements.num ELSE NaN
                 ELSE 0
         IN  IF statementsCoverage >= Num(70)
               THEN MathMin(Num(100), Times(statementsCoverage, 11, 10))
               ELSE IF statementsCoverage >= Num(40)
                 THEN statementsCoverage
                 ELSE MathMax(0, Times(statementsCoverage, 8, 10))

\* case 'tests' of part_001: an object-valued coverage goes through
\* calculateWeightedTestScore, a number is used as it is
testsScoreP1(f) ==
  IF Has(f, "coverage") /\ ~IsNumber(f.coverage)
    THEN MathMin(Num(100), calculateWeightedTestScore(f))
    ELSE LET coverage == IF Has(f, "coverage") THEN f.coverage.num ELSE 0
         IN  MathMin(Num(100), coverage)

\* case 'test-cases' of part_001
testCasesScoreP1(f) ==
  IF Has(f, "testCases") /\ Has(f.testCases, "weightedCoverage")
    THEN MathMin(Num(100), calculateWeightedTestScore(f.testCases))
    ELSE 0

\* getAnalyzerScore of src/lib/index.js
getAnalyzerScoreLib(a, f) ==
  CASE a = "eslint" -> eslintScore(f)
    [] a = "typescript" -> typescriptScore(f)
    [] a = "security" -> securityScore(f)
    [] a = "tests" -> testsScore(f)
    [] a = "complexity" -> complexityScore(f)
    [] a = "dependencies" -> dependenciesScore(f)
    [] a = "coverage" -> coverageScore(f)
    [] a = "performance" -> performanceScore(f)
    [] a = "architecture" -> architectureScore(f)
    [] a = "bug-detection" -> bugDetectionScore(f)
    [] a = "test-cases" -> testCasesScore(f)
    [] OTHER -> Num(100)

\* getAnalyzerScore of part_001
getAnalyzerScoreP1(a, f) ==
  CASE a = "eslint" -> eslintScore(f)
    [] a = "typescript" -> typescriptScore(f)
    [] a = "security" -> securityScore(f)
    [] a = "tests" -> testsScoreP1(f)
    [] a = "test-cases" -> testCasesScoreP1(f)
    [] a = "complexity" -> complexityScore(f)
    [] a = "dependencies" -> dependenciesScore(f)
    [] a = "performance" -> performanceScore(f)
    [] a = "architecture" -> architectureScore(f)
    [] a = "bug-detection" -> bugDetectionScore(f)
    [] OTHER -> Num(100)

getAnalyzerScore(v, a, f) ==
  IF v = "lib" THEN getAnalyzerScoreLib(a, f) ELSE getAnalyzerScoreP1(a, f)

\* a variant of getGrade with strict comparisons
getGradeStrict(s) ==
  IF s > Num(90) THEN "A"
  ELSE IF s > Num(80) THEN "B"
  ELSE IF s > Num(70) THEN "C"
  ELSE IF s > Num(60) THEN "D"
  ELSE "F"

\* getGrade; every comparison with NaN is false
getGrade(s) ==
  IF s >= Num(90) THEN "A"
  ELSE IF s >= Num(80) THEN "B"
  ELSE IF s >= Num(70) THEN "C"
  ELSE IF s >= Num(60) THEN "D"
  ELSE "F"

----------------------------------------------------------------------------
(* Scoring engine: calculateScore *)

\* Object.entries(weights) of src/lib/index.js
WeightsLib ==
  << <<"eslint", 12>>, <<"typescript", 12>>, <<"security", 20>>, <<"tests", 10>>,
     <<"complexity", 8>>, <<"dependencies", 8>>, <<"coverage", 8>>,
     <<"performance", 8>>, <<"architecture", 5>>, <<"bug-detection", 15>>,
     <<"test-cases", 12>> >>

\* Object.entries(weights) of part_001
WeightsP1 ==
  << <<"eslint", 15>>, <<"typescript", 15>>, <<"security", 25>>, <<"test-cases", 10>>,
     <<"complexity", 10>>, <<"dependencies", 10>>, <<"performance", 10>>,
     <<"architecture", 10>>, <<"bug-detection", 10>> >>

Weights(v) == IF v = "lib" THEN WeightsLib ELSE WeightsP1

WeightedNames(v) == {Weights(v)[i][1] : i \in 1..Len(Weights(v))}

\* findings[analyzer] && findings[analyzer].success !== false
Counted(fs, a) == Has(fs, a) /\ ~(Has(fs[a], "success") /\ fs[a].success = FALSE)

\* maxScore after the first n entries of the table
RECURSIVE MaxScoreUpTo(_, _)
MaxScoreUpTo(w, n) == IF n = 0 THEN 0 ELSE MaxScoreUpTo(w, n - 1) + w[n][2]

\* totalScore after the first n entries of the table, as the exact number
\* totalScore * Scale * 100: each counted entry adds (analyzerScore / 100) * weight
RECURSIVE TotalScoreUpTo(_, _, _, _)
TotalScoreUpTo(v, fs, w, n) ==
  IF n = 0 THEN 0
  ELSE LET before == TotalScoreUpTo(v, fs, w, n - 1)
           a == w[n][1]
           analyzerScore == getAnalyzerScore(v, a, fs[a])
       IN  IF ~Counted(fs, a) THEN before
           ELSE IF before = NaN \/ analyzerScore = NaN THEN NaN
           ELSE before + analyzerScore * w[n][2]

\* Math.round((totalScore / maxScore) * 100) for totalScore given as
\* total / (Scale * 100); 0 / 0 is NaN
OverallOf(total, maxScore) ==
  IF total = NaN \/ maxScore = 0 THEN NaN
  ELSE Num((2 * total + Scale * maxScore) \div (2 * Scale * maxScore))

WeightOf(w, a) == w[CHOOSE i \in 1..Len(w) : w[i][1] = a][2]

\* getScoreBreakdown: an entry for every table analyzer with a truthy finding
getScoreBreakdown(v, fs, w) ==
  [a \in {w[i][1] : i \in 1..Len(w)} \cap DOMAIN fs |->
     [score |-> getAnalyzerScore(v, a, fs[a]),
      weight |-> WeightOf(w, a),
      findings |-> fs[a]]]

calculateScore(v, fs) ==
  LET weights == Weights(v)
      maxScore == MaxScoreUpTo(weights, Len(weights))
      totalScore == TotalScoreUpTo(v, fs, weights, Len(weights))
      overall == OverallOf(totalScore, maxScore)
  IN  [overall |-> overall,
       grade |-> getGrade(overall),
       breakdown |-> getScoreBreakdown(v, fs, weights)]

----------------------------------------------------------------------------
(* Inputs of the scoring functions *)

Variants == {"lib", "p1"}

Counts == (0..MaxCount) \cup {BigCount}

\* percentages and pre-computed scores, in and out of 0..100
PctVals == (0..MaxCount) \cup {0 - 1, 39, 40, 69, 70, 91, BigCount, BigCount + 50}

\* the objects {} and {k: x} for x in V
Opt(k, V) == {EmptyObject} \cup {(k :> x) : x \in V}

Both(A, B) == {Merge(x, y) : x \in A, y \in B}

SubCheck == {[success |-> TRUE], [success |-> FALSE]}

\* the values of a coverage field: a number, {}, {statements: number},
\* {statements: {pct}}
CoverageValues(P) ==
  {[num |-> Num(p)] : p \in P} \cup {EmptyObject}
    \cup {[statements |-> [num |-> Num(p)]] : p \in P}
    \cup {[statements |-> [pct |-> Num(p)]] : p \in P}

WeightedCoverageValues(P) == {[weightedScore |-> Num(p)] : p \in P}

\* the finding records of analyzer a with counts from C and percentages from P
FindingInputs(a, C, P) ==
  CASE a = "eslint" -> Both(Opt("errors", C), Opt("warnings", C))
    [] a = "typescript" -> Opt("errors", C)
    [] a = "security" -> Opt("vulnerabilities", C)
    [] a = "tests" -> Both(Opt("coverage", CoverageValues(P)),
                           Opt("weightedCoverage", WeightedCoverageValues({91})))
    [] a = "complexity" -> Opt("score", {Num(p) : p \in P})
    [] a = "dependencies" -> Both(Opt("circularDependencies", SubCheck),
                               Both(Opt("outdatedPackages", SubCheck),
                                    Opt("securityVulnerabilities", SubCheck)))
    [] a = "coverage" -> Both(Opt("success", BOOLEAN), Opt("coverage", CoverageValues(P)))
    [] a = "performance" -> Opt("performanceIssues", C)
    [] a = "architecture" -> Opt("antiPatterns", C)
    [] a = "bug-detection" -> Both(Both(Opt("bugs", C), Opt("potentialIssues", C)),
                                   Both(Opt("securityRisks", C), Opt("performanceIssues", C)))
    [] a = "test-cases" ->
         Both(Both(Opt("missingTests", C), Opt("testQuality", {0, 1})),
              Both(Opt("coverage", {[statements |-> [pct |-> Num(p)]] : p \in {40, 100}}
                                     \cup {[statements |-> [num |-> Num(70)]]}),
                   Opt("testCases", {[weightedCoverage |-> w] : w \in WeightedCoverageValues({91})})))
    [] OTHER -> Opt("violations", C)

\* the analyzer names getAnalyzerScore is called with, and one it does not know
ScoredNames == WeightedNames("lib") \cup {"custom-rules"}

\* the count fields of a finding that the scoring reads
CountFields ==
  {"errors", "warnings", "vulnerabilities", "bugs", "securityRisks",
   "potentialIssues", "performanceIssues", "antiPatterns", "missingTests"}

----------------------------------------------------------------------------
(* RuleEngine.validateRules (src/lib/report-generator.js, second part) *)

requiredFields == <<"id", "category", "severity", "description", "pattern", "suggestion">>

validSeverities == {"CRITICAL", "ERROR", "WARNING", "INFO"}

validPriorities == {"HIGH", "MEDIUM", "LOW"}

\* the patterns of the model on which new RegExp(pattern) throws
InvalidPatterns == {"(", "[a-"}

\* a variant of RegExpCompiles for a validator that does not compile the pattern
RegExpCompilesAlways(pattern) == TRUE

\* new RegExp(pattern) returns
RegExpCompiles(pattern) == pattern \notin InvalidPatterns

\* !!o[k] for a string-valued field
Truthy(o, k) == Has(o, k) /\ o[k] # ""

\* ${rule.id} inside a message
IdText(rule) == IF Has(rule, "id") THEN rule.id ELSE "undefined"

\* a variant of MissingFieldErrors that tests rule[field] === undefined
RECURSIVE MissingFieldErrorsAbsentOnly(_, _, _)
MissingFieldErrorsAbsentOnly(rule, index, n) ==
  IF n = 0 THEN << >>
  ELSE MissingFieldErrorsAbsentOnly(rule, index, n - 1) \o
       (IF Has(rule, requiredFields[n])
          THEN << >>
          ELSE << [kind |-> "missing", rule |-> index, field |-> requiredFields[n]] >>)

\* the missing-field errors of the first n required fields
RECURSIVE MissingFieldErrors(_, _, _)
MissingFieldErrors(rule, index, n) ==
  IF n = 0 THEN << >>
  ELSE MissingFieldErrors(rule, index, n - 1) \o
       (IF Truthy(rule, requiredFields[n])
          THEN << >>
          ELSE << [kind |-> "missing", rule |-> index, field |-> requiredFields[n]] >>)

\* a variant of validateRule that reports its warnings as errors
validateRuleExampleRequired(rule, index) ==
  LET missing == MissingFieldErrors(rule, index, Len(requiredFields))
      severity == IF Truthy(rule, "severity") /\ rule.severity \notin validSeverities
                    THEN << [kind |-> "severity", id |-> IdText(rule)] >> ELSE << >>
      regex == IF Truthy(rule, "pattern") /\ ~RegExpCompiles(rule.pattern)
                 THEN << [kind |-> "regex", id |-> IdText(rule)] >> ELSE << >>
      files == IF Has(rule, "files") /\ ~rule.files.isArray
                 THEN << [kind |-> "files", id |-> IdText(rule)] >> ELSE << >>
      example == IF Has(rule, "example")
                   THEN IF ~Truthy(rule.example, "bad") \/ ~Truthy(rule.example, "good")
                          THEN << [kind |-> "example-shape", id |-> IdText(rule)] >>
                          ELSE << >>
                   ELSE << [kind |-> "no-example", id |-> IdText(rule)] >>
  IN  [errors |-> missing \o severity \o regex \o files \o example, warnings |-> << >>]

\* validateRule(rule, index): {errors, warnings}
validateRule(rule, index) ==
  LET missing == MissingFieldErrors(rule, index, Len(requiredFields))
      severity == IF Truthy(rule, "severity") /\ rule.severity \notin validSeverities
                    THEN << [kind |-> "severity", id |-> IdText(rule)] >> ELSE << >>
      regex == IF Truthy(rule, "pattern") /\ ~RegExpCompiles(rule.pattern)
                 THEN << [kind |-> "regex", id |-> IdText(rule)] >> ELSE << >>
      files == IF Has(rule, "files") /\ ~rule.files.isArray
                 THEN << [kind |-> "files", id |-> IdText(rule)] >> ELSE << >>
      example == IF Has(rule, "example")
                   THEN IF ~Truthy(rule.example, "bad") \/ ~Truthy(rule.example, "good")
                          THEN << [kind |-> "example-shape", id |-> IdText(rule)] >>
                          ELSE << >>
                   ELSE << [kind |-> "no-example", id |-> IdText(rule)] >>
  IN  [errors |-> missing \o severity \o regex \o files, warnings |-> example]

\* a variant of ValidateUpTo without the check for duplicate ids
RECURSIVE ValidateUpToNoDuplicates(_, _)
ValidateUpToNoDuplicates(rs, n) ==
  IF n = 0 THEN [errors |-> << >>, warnings |-> << >>, ruleIds |-> {}]
  ELSE LET before == ValidateUpToNoDuplicates(rs, n - 1)
           rule == rs[n]
           ruleErrors == validateRule(rule, n - 1)
           duplicate == Truthy(rule, "id") /\ rule.id \in before.ruleIds
       IN  [errors |-> before.errors \o ruleErrors.errors \o
                       << >>,
            warnings |-> before.warnings \o ruleErrors.warnings,
            ruleIds |-> IF Truthy(rule, "id") THEN before.ruleIds \cup {rule.id}
                        ELSE before.ruleIds]

\* the state of validateRules' forEach after the first n rules
RECURSIVE ValidateUpTo(_, _)
ValidateUpTo(rs, n) ==
  IF n = 0 THEN [errors |-> << >>, warnings |-> << >>, ruleIds |-> {}]
  ELSE LET before == ValidateUpTo(rs, n - 1)
           rule == rs[n]
           ruleErrors == validateRule(rule, n - 1)
           duplicate == Truthy(rule, "id") /\ rule.id \in before.ruleIds
       IN  [errors |-> before.errors \o ruleErrors.errors \o
                       (IF duplicate THEN << [kind |-> "duplicate", id |-> rule.id] >> ELSE << >>),
            warnings |-> before.warnings \o ruleErrors.warnings,
            ruleIds |-> IF Truthy(rule, "id") THEN before.ruleIds \cup {rule.id}
                        ELSE before.ruleIds]

\* the two checks of validateCategories on the category c
CategoryWarnings(categories, c) ==
  (IF ~Has(categories[c], "priority") \/ categories[c].priority \notin validPriorities
     THEN << [kind |-> "priority", category |-> c] >> ELSE << >>)
  \o (IF ~Truthy(categories[c], "description")
        THEN << [kind |-> "description", category |-> c] >> ELSE << >>)

\* the warnings of the categories S; the order of Object.entries among
\* several categories is not modelled
RECURSIVE CategoryWarningsOver(_, _)
CategoryWarningsOver(categories, S) ==
  IF S = {} THEN << >>
  ELSE LET c == CHOOSE x \in S : TRUE
       IN  CategoryWarnings(categories, c) \o CategoryWarningsOver(categories, S \ {c})

validateCategories(categories) == CategoryWarningsOver(categories, DOMAIN categories)

\* rule.severity || 'UNKNOWN'
SeverityOf(rule) == IF Truthy(rule, "severity") THEN rule.severity ELSE "UNKNOWN"

\* getSeverityBreakdown: severity -> number of rules
getSeverityBreakdown(rs) ==
  [sev \in {SeverityOf(rs[i]) : i \in 1..Len(rs)} |->
     Cardinality({i \in 1..Len(rs) : SeverityOf(rs[i]) = sev})]

\* validateRules(); the rules of the model are always an array
validateRules(config) ==
  LET done == ValidateUpTo(config.rules, Len(config.rules))
  IN  [valid |-> Len(done.errors) = 0,
       errors |-> done.errors,
       warnings |-> done.warnings \o validateCategories(config.categories),
       stats |-> [totalRules |-> Len(config.rules),
                  categories |-> Cardinality(DOMAIN config.categories),
                  severityBreakdown |-> getSeverityBreakdown(config.rules)]]

----------------------------------------------------------------------------
(* CodeReviewTool.runAnalyzers *)

\* the cases of runAnalyzers' switch: the property each stores its result under
DispatchLib ==
  ("eslint" :> "eslint") @@ ("typescript" :> "typescript") @@ ("security" :> "security")
    @@ ("tests" :> "tests") @@ ("complexity" :> "complexity")
    @@ ("custom-rules" :> "customRules") @@ ("dependencies" :> "dependencies")
    @@ ("coverage" :> "coverage") @@ ("performance" :> "performance")
    @@ ("architecture" :> "architecture") @@ ("bug-detection" :> "bugDetection")
    @@ ("test-cases" :> "testCases")

\* part_001 has no case 'coverage'
DispatchP1 == [a \in (DOMAIN DispatchLib) \ {"coverage"} |-> DispatchLib[a]]

Dispatch(v) == IF v = "lib" THEN DispatchLib ELSE DispatchP1

\* analyzerName is a case of the switch
Recognized(v, analyzerName) == analyzerName \in DOMAIN Dispatch(v)

\* error.message of the error analyzer a throws
MessageOf(a) == <<"failed", a>>

\* what an analyzer's check method returns on a clean project
CleanFinding(a) ==
  CASE a = "eslint" -> [success |-> TRUE, errors |-> 0, warnings |-> 0]
    [] a = "typescript" -> [success |-> TRUE, errors |-> 0]
    [] a = "security" -> [success |-> TRUE, vulnerabilities |-> 0]
    [] a = "tests" -> [success |-> TRUE, coverage |-> [num |-> Num(100)]]
    [] a = "complexity" -> [success |-> TRUE, score |-> Num(100)]
    [] a = "custom-rules" -> [success |-> TRUE, violations |-> 0]
    [] a = "dependencies" -> [circularDependencies |-> [success |-> TRUE],
                              outdatedPackages |-> [success |-> TRUE],
                              securityVulnerabilities |-> [success |-> TRUE]]
    [] a = "coverage" -> [success |-> TRUE, coverage |-> [statements |-> [pct |-> Num(100)]]]
    [] a = "performance" -> [performanceIssues |-> 0]
    [] a = "architecture" -> [antiPatterns |-> 0]
    [] a = "bug-detection" -> [bugs |-> 0, potentialIssues |-> 0, securityRisks |-> 0,
                               performanceIssues |-> 0]
    [] a = "test-cases" -> [missingTests |-> 0, testQuality |-> 0,
                            weightedCoverage |-> [weightedScore |-> Num(100)]]

\* what it returns on a project with problems.  checkESLint sets success to
\* errors === 0; checkCoverage (src/lib/analyzer-base.js:778) stores the
\* statements percentage as a number
FlawedFinding(a) ==
  CASE a = "eslint" -> [success |-> FALSE, errors |-> MaxCount, warnings |-> 2]
    [] a = "typescript" -> [success |-> TRUE, errors |-> 1]
    [] a = "security" -> [success |-> TRUE, vulnerabilities |-> 1]
    [] a = "tests" -> [success |-> TRUE, coverage |-> [num |-> Num(40)]]
    [] a = "complexity" -> [success |-> TRUE, score |-> Num(70)]
    [] a = "custom-rules" -> [success |-> TRUE, violations |-> MaxCount]
    [] a = "dependencies" -> [circularDependencies |-> [success |-> FALSE],
                              outdatedPackages |-> [success |-> TRUE],
                              securityVulnerabilities |-> [success |-> FALSE]]
    [] a = "coverage" -> [success |-> TRUE, coverage |-> [statements |-> [num |-> Num(85)]]]
    [] a = "performance" -> [performanceIssues |-> 2]
    [] a = "architecture" -> [antiPatterns |-> 1]
    [] a = "bug-detection" -> [bugs |-> 1, potentialIssues |-> MaxCount, securityRisks |-> 0,
                               performanceIssues |-> 1]
    [] a = "test-cases" -> [missingTests |-> MaxCount, testQuality |-> 1,
                            weightedCoverage |-> [weightedScore |-> Num(40)]]

Projects == {"clean", "flawed"}

\* AnalyzerBase.runCommand: execSync with timeout 60000 throws when the
\* command times out, and the catch returns success false with the output
\* received so far (none) and the error text
runCommand(timesOut) ==
  IF timesOut THEN [success |-> FALSE, output |-> "", error |-> "ETIMEDOUT"]
  ELSE [success |-> TRUE, output |-> "done", error |-> ""]

\* what an analyzer's check method returns on a project whose configuration
\* files exist and on which every external command times out.  checkESLint:
\* JSON.parse of the error text throws and is caught, the totals stay 0.
\* checkTypeScript: no line of the error text is a compiler error.
\* checkSecurity: the empty output is not parsed.  checkTests: no coverage
\* is found.  checkDependencies: madge's output does not name a circular
\* dependency, the other two checks keep their initial success false.
\* checkCoverage: results.success stays false.  The other analyzers run no
\* command that decides their finding
StalledFinding(a) ==
  LET result == runCommand(TRUE)
  IN  CASE a = "eslint" -> [success |-> TRUE, errors |-> 0, warnings |-> 0]
        [] a = "typescript" -> [success |-> TRUE, errors |-> 0]
        [] a = "security" ->
             [success |-> TRUE, vulnerabilities |-> 0]
        [] a = "tests" -> [success |-> TRUE, coverage |-> [num |-> 0]]
        [] a = "dependencies" ->
             [circularDependencies |-> [success |-> TRUE],
              outdatedPackages |-> [success |-> result.success],
              securityVulnerabilities |-> [success |-> result.success]]
        [] a = "coverage" -> [success |-> result.success, coverage |-> EmptyObject]
        [] OTHER -> CleanFinding(a)

\* await this.analyzer.check...() when it returns
Returned(proj, a) ==
  IF proj = "clean" THEN CleanFinding(a)
  ELSE IF proj = "flawed" THEN FlawedFinding(a)
  ELSE StalledFinding(a)

\* a variant of RecordFailure that only logs the error
RecordFailureDropped(fs, analyzerName, message) == fs

\* a variant of RecordFailure that keeps one record for all failures
RecordFailureMisplaced(fs, analyzerName, message) ==
  Put(fs, "error", [success |-> FALSE, error |-> message])

\* the catch block: findings[analyzerName] = {success: false, error: error.message}
RecordFailure(fs, analyzerName, message) ==
  Put(fs, analyzerName, [success |-> FALSE, error |-> message])

\* a recognized case: findings.<key> = the result
StoreResult(v, fs, analyzerName, result) ==
  Put(fs, Dispatch(v)[analyzerName], result)

\* a variant of Iteration whose default case throws
IterationRecordsUnknown(v, proj, thr, fs, analyzerName) ==
  IF ~Recognized(v, analyzerName) \/ analyzerName \in thr
    THEN RecordFailure(fs, analyzerName, MessageOf(analyzerName))
    ELSE StoreResult(v, fs, analyzerName, Returned(proj, analyzerName))

\* one iteration of runAnalyzers' for loop
Iteration(v, proj, thr, fs, analyzerName) ==
  IF ~Recognized(v, analyzerName) THEN fs
  ELSE IF analyzerName \in thr THEN RecordFailure(fs, analyzerName, MessageOf(analyzerName))
  ELSE StoreResult(v, fs, analyzerName, Returned(proj, analyzerName))

----------------------------------------------------------------------------
(* CodeReviewTool.generateReports *)

\* the report types each version renders and the property of the result
RendererLib ==
  ("html" :> "html") @@ ("json" :> "json") @@ ("markdown" :> "markdown")
    @@ ("ai-prompts" :> "aiPrompts")

RendererP1 ==
  ("html" :> "html") @@ ("ai-summary" :> "aiSummary") @@ ("json" :> "json")
    @@ ("markdown" :> "markdown") @@ ("ai-prompts" :> "aiPrompts")
    @@ ("ai-analysis" :> "aiAnalysis")

Renderer(v) == IF v = "lib" THEN RendererLib ELSE RendererP1

Includes(seq, x) == \E i \in 1..Len(seq) : seq[i] = x

\* part_001: options.aiAnalysis || options.aiPrompts || a reporters list
\* naming ai-analysis or ai-prompts
isAITesting(opts) ==
  \/ (Has(opts, "aiAnalysis") /\ opts.aiAnalysis)
  \/ (Has(opts, "aiPrompts") /\ opts.aiPrompts)
  \/ (Has(opts, "reporters") /\
        (Includes(opts.reporters, "ai-analysis") \/ Includes(opts.reporters, "ai-prompts")))

\* the list generateReports loops over
EnabledReporters(v, opts, configReporters) ==
  IF v = "lib"
    THEN IF Has(opts, "reporters") THEN opts.reporters ELSE configReporters
    ELSE IF isAITesting(opts) THEN <<"html", "ai-summary">> ELSE <<"html">>

\* part_001 renders json, markdown, ai-prompts and ai-analysis only when
\* options.reporters names them
Requested(v, opts, reporterName) ==
  \/ v = "lib"
  \/ reporterName \in {"html", "ai-summary"}
  \/ (Has(opts, "reporters") /\ Includes(opts.reporters, reporterName))

\* the switch has a case for the reporter and the case calls a renderer
Called(v, opts, reporterName) ==
  reporterName \in DOMAIN Renderer(v) /\ Requested(v, opts, reporterName)

\* a variant of ReportsUpTo whose loop ends at the first renderer that throws
RECURSIVE ReportsUpToAborting(_, _, _, _, _)
ReportsUpToAborting(v, opts, thr, list, n) ==
  IF n = 0 THEN EmptyObject
  ELSE LET before == ReportsUpToAborting(v, opts, thr, list, n - 1)
           reporterName == list[n]
       IN  IF /\ Called(v, opts, reporterName)
              /\ \A k \in 1..n : ~(Called(v, opts, list[k]) /\ list[k] \in thr)
             THEN Put(before, Renderer(v)[reporterName], [report |-> reporterName])
             ELSE before

\* reports after the first n reporters of the list
RECURSIVE ReportsUpTo(_, _, _, _, _)
ReportsUpTo(v, opts, thr, list, n) ==
  IF n = 0 THEN EmptyObject
  ELSE LET before == ReportsUpTo(v, opts, thr, list, n - 1)
           reporterName == list[n]
       IN  IF /\ reporterName \in DOMAIN Renderer(v)
              /\ Requested(v, opts, reporterName)
              /\ reporterName \notin thr
             THEN Put(before, Renderer(v)[reporterName], [report |-> reporterName])
             ELSE before

generateReports(v, opts, thr, configReporters) ==
  LET list == EnabledReporters(v, opts, configReporters)
  IN  ReportsUpTo(v, opts, thr, list, Len(list))

\* the renderers the loop calls, in order: the catch of the loop body lets
\* the loop go on after a renderer that throws
InvokedBy(v, opts, list) == SelectSeq(list, LAMBDA reporterName : Called(v, opts, reporterName))

\* an error of a renderer leaves generateReports: never, the try statement
\* is the whole body of the loop
Escapes(v, opts, thr, list) == FALSE

----------------------------------------------------------------------------
(* Inputs of analyze() *)

\* the analyzer names a configuration lists; "lint" is no analyzer
AnalyzerPool == {"eslint", "security", "custom-rules", "coverage", "lint"}

\* the methods that may be made to throw
ThrowPool == {"security", "custom-rules", "html"}

RECURSIVE SeqsUpTo(_, _)
SeqsUpTo(S, n) ==
  IF n = 0 THEN {<< >>}
  ELSE SeqsUpTo(S, n - 1) \cup {Append(q, x) : q \in {r \in SeqsUpTo(S, n - 1) : Len(r) = n - 1}, x \in S}

AnalyzerLists == SeqsUpTo(AnalyzerPool, MaxAnalyzers)

OptionsDomain == {EmptyObject, [reporters |-> <<"json", "pdf">>], [aiAnalysis |-> TRUE]}

ConfigReporters == {<<"html">>, <<"html", "json">>}

GoodRule ==
  [id |-> "no-console", category |-> "style", severity |-> "WARNING",
   description |-> "no console output", pattern |-> "console\\.log",
   suggestion |-> "use the logger"]

RulePool ==
  {GoodRule,
   [GoodRule EXCEPT !.pattern = "("],
   [k \in (DOMAIN GoodRule) \ {"suggestion"} |-> GoodRule[k]]}

RulesConfigs ==
  {[rules |-> rs, categories |-> ("style" :> [priority |-> "HIGH"])] :
     rs \in SeqsUpTo(RulePool, MaxRules)}

\* analyze's local `score` before calculateScore has returned
NoScore == [overall |-> 0, grade |-> "unset", breakdown |-> EmptyObject]

\* the constructor's this.results
InitialResults == [findings |-> EmptyObject, reports |-> EmptyObject, score |-> 0, grade |-> "F"]

\* the variables of the getAnalyzerScore operations, unused by analyze()
NoSubScore ==
  /\ analyzer = "eslint"
  /\ finding = EmptyObject
  /\ subScore = 0

\* the variables of calculateWeightedCoverage and RuleEngine, unused by the tool
NoEngine ==
  /\ coverageData = EmptyObject
  /\ weightedCoverage = EmptyObject
  /\ validation = EmptyObject
  /\ rules = << >>
  /\ filePath = ""
  /\ rulesForFile = << >>
  /\ answered = EmptyObject
  /\ outcome = "none"

\* what regex.exec returns without a match
null == [found |-> FALSE, index |-> 0, end |-> 0, text |-> ""]

\* the variables of the report loop, the awaits and checkCustomRules before
\* any of them ran
NoAux ==
  /\ enabledReporters = << >>
  /\ invoked = << >>
  /\ running = {}
  /\ sourceFiles = << >>
  /\ fileIdx = 0
  /\ ruleIdx = 0
  /\ lastIndex = 0
  /\ match = null
  /\ violations = << >>
  /\ customRules = EmptyObject

----------------------------------------------------------------------------
(* analyze(): load and validate, run the analyzers, score, report *)

Init ==
  /\ variant \in Variants
  /\ project \in Projects
  /\ throwing \in SUBSET ThrowPool
  /\ options \in OptionsDomain
  /\ rulesConfig = [rules |-> << >>, categories |-> EmptyObject]
  /\ enabledAnalyzers = << >>
  /\ pc = "start"
  /\ idx = 0
  /\ findings = EmptyObject
  /\ executed = << >>
  /\ score = NoScore
  /\ reports = EmptyObject
  /\ results = InitialResults
  /\ NoSubScore
  /\ NoEngine
  /\ NoAux

\* a variant of ValidationBlocks that ignores the validation result
ValidationNeverBlocks(ruleValidation) == FALSE

\* if (!ruleValidation.valid) throw
ValidationBlocks(ruleValidation) == ~ruleValidation.valid

\* loadConfig, new RuleEngine(getRules()), validateRules; then either the
\* throw or the entry of runAnalyzers up to its first await
Validate ==
  /\ pc = "start"
  /\ \E config \in RulesConfigs, list \in AnalyzerLists :
       /\ rulesConfig' = config
       /\ IF ValidationBlocks(validateRules(config))
            THEN /\ pc' = "failed"
                 /\ UNCHANGED <<enabledAnalyzers, idx>>
            ELSE /\ enabledAnalyzers' = list
                 /\ idx' = 1
                 /\ pc' = IF Len(list) = 0 THEN "score" ELSE "analyzers"
  /\ UNCHANGED <<variant, project, throwing, options, findings, executed, score,
                 reports, results, analyzer, finding, subScore>>
  /\ UNCHANGED engineVars
  /\ UNCHANGED auxVars

\* one iteration of the for loop of runAnalyzers
RunAnalyzer ==
  /\ pc = "analyzers"
  /\ idx <= Len(enabledAnalyzers)
  /\ LET analyzerName == enabledAnalyzers[idx]
     IN  /\ findings' = Iteration(variant, project, throwing, findings, analyzerName)
         /\ executed' = IF Recognized(variant, analyzerName)
                          THEN Append(executed, analyzerName) ELSE executed
  /\ idx' = idx + 1
  /\ pc' = IF idx' > Len(enabledAnalyzers) THEN "score" ELSE "analyzers"
  /\ UNCHANGED <<variant, project, throwing, options, rulesConfig, enabledAnalyzers,
                 score, reports, results, analyzer, finding, subScore>>
  /\ UNCHANGED engineVars
  /\ UNCHANGED auxVars

\* const score = this.calculateScore(findings)
CalculateScore ==
  /\ pc = "score"
  /\ score' = calculateScore(variant, findings)
  /\ pc' = "reports"
  /\ UNCHANGED <<variant, project, throwing, options, rulesConfig, enabledAnalyzers,
                 idx, findings, executed, reports, results, analyzer, finding, subScore>>
  /\ UNCHANGED engineVars
  /\ UNCHANGED auxVars

\* a variant of ResultsOf for an assignment made before the reports exist
ResultsOfBeforeReports(fs, rs, sc) ==
  [findings |-> fs, reports |-> EmptyObject, score |-> sc.overall, grade |-> sc.grade]

\* this.results = {findings, reports, score: score.overall, grade: score.grade}
ResultsOf(fs, rs, sc) ==
  [findings |-> fs, reports |-> rs, score |-> sc.overall, grade |-> sc.grade]

\* generateReports, then this.results = {findings, reports, score, grade}
GenerateReports ==
  /\ pc = "reports"
  /\ \E configReporters \in ConfigReporters :
       LET list == EnabledReporters(variant, options, configReporters)
       IN  /\ enabledReporters' = list
           /\ invoked' = InvokedBy(variant, options, list)
           /\ IF Escapes(variant, options, throwing, list)
                THEN /\ pc' = "failed"
                     /\ UNCHANGED <<reports, results>>
                ELSE /\ reports' = generateReports(variant, options, throwing, configReporters)
                     /\ results' = ResultsOf(findings, reports', score)
                     /\ pc' = "done"
  /\ UNCHANGED <<variant, project, throwing, options, rulesConfig, enabledAnalyzers,
                 idx, findings, executed, score, analyzer, finding, subScore>>
  /\ UNCHANGED engineVars
  /\ UNCHANGED <<running, sourceFiles, fileIdx, ruleIdx, lastIndex, match, violations,
                 customRules>>

Next == Validate \/ RunAnalyzer \/ CalculateScore \/ GenerateReports

Spec == Init /\ [][Next]_vars

----------------------------------------------------------------------------
(* calculateScore called on a findings map *)

\* the findings keys that vary: the table's names and two property names
\* runAnalyzers writes
VariedNames == WeightedNames("lib") \cup {"customRules", "bugDetection"}

FailedFinding(a) == [success |-> FALSE, error |-> MessageOf(a)]

Sample(a) == FindingInputs(a, {MaxCount}, {40}) \cup {FailedFinding(a)}

\* the maps that give every name of S one of its sample findings
RECURSIVE MapsOver(_)
MapsOver(S) ==
  IF S = {} THEN {EmptyObject}
  ELSE LET a == CHOOSE x \in S : TRUE
       IN  {Put(m, a, f) : m \in MapsOver(S \ {a}), f \in Sample(a)}

\* every analyzer of the table absent, or every one present and clean
Fill(kind) ==
  IF kind = "none" THEN EmptyObject
  ELSE [a \in WeightedNames("lib") |-> CleanFinding(a)]

\* lint with 3 errors and 2 warnings, security with no vulnerability
EndToEndFindings ==
  ("eslint" :> [errors |-> 3, warnings |-> 2]) @@ ("security" :> [vulnerabilities |-> 0])

ScoreInputs ==
  {Merge(m, Fill(kind)) :
     m \in UNION {MapsOver(S) : S \in {T \in SUBSET VariedNames : Cardinality(T) <= MaxVaried}},
     kind \in {"none", "clean"}}
  \cup {EndToEndFindings}

InitScore ==
  /\ variant \in Variants
  /\ project = "clean"
  /\ throwing = {}
  /\ options = EmptyObject
  /\ rulesConfig = [rules |-> << >>, categories |-> EmptyObject]
  /\ enabledAnalyzers = << >>
  /\ pc = "score"
  /\ idx = 0
  /\ findings \in ScoreInputs
  /\ executed = << >>
  /\ score = NoScore
  /\ reports = EmptyObject
  /\ results = InitialResults
  /\ NoSubScore
  /\ NoEngine
  /\ NoAux

NextScore == CalculateScore

SpecScore == InitScore /\ [][NextScore]_vars

----------------------------------------------------------------------------
(* getAnalyzerScore called on one finding *)

InitSub ==
  /\ variant \in Variants
  /\ project = "clean"
  /\ throwing = {}
  /\ options = EmptyObject
  /\ rulesConfig = [rules |-> << >>, categories |-> EmptyObject]
  /\ enabledAnalyzers = << >>
  /\ pc = "input"
  /\ idx = 0
  /\ findings = EmptyObject
  /\ executed = << >>
  /\ score = NoScore
  /\ reports = EmptyObject
  /\ results = InitialResults
  /\ analyzer \in ScoredNames
  /\ finding \in FindingInputs(analyzer, Counts, PctVals)
  /\ subScore = 0
  /\ NoEngine
  /\ NoAux

\* subScore = this.getAnalyzerScore(analyzer, finding)
Apply ==
  /\ pc = "input"
  /\ subScore' = getAnalyzerScore(variant, analyzer, finding)
  /\ pc' = "scored"
  /\ UNCHANGED <<variant, project, throwing, options, rulesConfig, enabledAnalyzers,
                 idx, findings, executed, score, reports, results, analyzer, finding>>
  /\ UNCHANGED engineVars
  /\ UNCHANGED auxVars

\* the same analyzer scored again on the finding with one count raised by one
Increase ==
  /\ pc = "scored"
  /\ \E k \in CountFields \cap DOMAIN finding :
       /\ finding[k] \in Counts
       /\ finding' = [finding EXCEPT ![k] = @ + 1]
  /\ subScore' = getAnalyzerScore(variant, analyzer, finding')
  /\ UNCHANGED <<variant, project, throwing, options, rulesConfig, enabledAnalyzers, pc,
                 idx, findings, executed, score, reports, results, analyzer>>
  /\ UNCHANGED engineVars
  /\ UNCHANGED auxVars

NextSub == Apply \/ Increase

SpecSub == InitSub /\ [][NextSub]_vars

----------------------------------------------------------------------------
(* Claims about runAnalyzers and analyze(), checked under Spec *)

\* runAnalyzers has returned
AnalyzersDone == pc \in {"score", "reports", "done"}

RequestedNames == {enabledAnalyzers[i] : i \in 1..Len(enabledAnalyzers)}

\* the record the catch block stores for analyzer a
FailureRecordOf(a) == [success |-> FALSE, error |-> MessageOf(a)]

\* the record f is marked success: false
MarkedFailed(f) == Has(f, "success") /\ f.success = FALSE

\* the requested names are distinct and recognized and exactly one throws
OneOfNThrows ==
  /\ Len(enabledAnalyzers) >= 1
  /\ Cardinality(RequestedNames) = Len(enabledAnalyzers)
  /\ \A a \in RequestedNames : Recognized(variant, a)
  /\ Cardinality(RequestedNames \cap throwing) = 1

RECURSIVE RecognizedPrefix(_)
RecognizedPrefix(n) ==
  IF n = 0 THEN << >>
  ELSE IF Recognized(variant, enabledAnalyzers[n])
    THEN Append(RecognizedPrefix(n - 1), enabledAnalyzers[n])
    ELSE RecognizedPrefix(n - 1)

\* the number of requested names runAnalyzers has gone through
Processed == IF pc = "analyzers" THEN idx - 1 ELSE Len(enabledAnalyzers)

\* C2: runAnalyzers never aborts: for any requested list and any set of
\* throwing analyzers, the loop goes on to the end of the list, every
\* recognized analyzer of the list is invoked, also after one that threw, and
\* each one that threw has {success: false, error: its message} under its name
C2_NeverAborts ==
  (pc \in {"analyzers", "score", "reports", "done"}) =>
    /\ executed = RecognizedPrefix(Processed)
    /\ \A i \in 1..Processed :
         LET a == enabledAnalyzers[i]
         IN  (Recognized(variant, a) /\ a \in throwing) =>
               (Has(findings, a) /\ findings[a] = FailureRecordOf(a))
    /\ (pc = "analyzers") => idx <= Len(enabledAnalyzers)

C2_Witness ==
  /\ pc = "score"
  /\ Len(enabledAnalyzers) = 2
  /\ enabledAnalyzers[1] \in throwing
  /\ enabledAnalyzers[2] \notin throwing
  /\ executed = enabledAnalyzers
  /\ Has(findings, enabledAnalyzers[1])
  /\ MarkedFailed(findings[enabledAnalyzers[1]])

\* the keys runAnalyzers may have written for the first n requested names
KeysOfPrefix(n) ==
  UNION {{enabledAnalyzers[i], Dispatch(variant)[enabledAnalyzers[i]]} :
           i \in {j \in 1..n : Recognized(variant, enabledAnalyzers[j])}}

\* C3: an unrecognized analyzer name is skipped: its iteration leaves the
\* findings map as it was and raises nothing, the loop goes on with the next
\* name, and no key of the map comes from an unrecognized name
C3_UnknownSkipped ==
  /\ [][(pc = "analyzers" /\ ~Recognized(variant, enabledAnalyzers[idx])) =>
          /\ findings' = findings
          /\ executed' = executed
          /\ idx' = idx + 1
          /\ pc' = IF idx' > Len(enabledAnalyzers) THEN "score" ELSE "analyzers"]_vars
  /\ [](DOMAIN findings \subseteq KeysOfPrefix(Processed))

C3_Witness ==
  /\ pc = "score"
  /\ Len(enabledAnalyzers) = 2
  /\ ~Recognized(variant, enabledAnalyzers[1])
  /\ Recognized(variant, enabledAnalyzers[2])
  /\ executed = <<enabledAnalyzers[2]>>
  /\ Cardinality(DOMAIN findings) = 1

\* C4: validation errors block the run: once the rules are loaded, a rule set
\* that validateRules finds invalid leaves analyze() failed with no analyzer
\* invoked, no score computed, no report rendered and this.results untouched
C4_ValidationBlocks ==
  (pc # "start" /\ ~validateRules(rulesConfig).valid) =>
    /\ pc = "failed"
    /\ executed = << >>
    /\ findings = EmptyObject
    /\ score = NoScore
    /\ reports = EmptyObject
    /\ results = InitialResults

C4_Witness ==
  /\ pc = "failed"
  /\ Len(rulesConfig.rules) = 2
  /\ ~validateRules(rulesConfig).valid

----------------------------------------------------------------------------
(* Claims about calculateScore and getGrade *)

\* the table entries whose analyzer has a finding
PresentWeights(v, fs) == SelectSeq(Weights(v), LAMBDA e : Has(fs, e[1]))

\* round(sum(subscore/100 * weight) / sum(weight) * 100) with both sums over
\* the analyzers present in the findings and in the table; 0 on an empty sum
PresentOnlyOverall(v, fs) ==
  LET w == PresentWeights(v, fs)
  IN  IF MaxScoreUpTo(w, Len(w)) = 0 THEN 0
      ELSE OverallOf(TotalScoreUpTo(v, fs, w, Len(w)), MaxScoreUpTo(w, Len(w)))

\* C5: the overall score calculateScore returns is the weighted mean of the
\* sub-scores over the analyzers present in both the findings and the weight
\* table: an analyzer absent from the findings adds nothing to the numerator
\* and nothing to the denominator
C5_PresentOnlyAggregation ==
  (pc = "reports") => score.overall = PresentOnlyOverall(variant, findings)

\* C6: calculateScore always returns a defined overall score, never NaN, and
\* when no analyzer of the weight table has a finding, so that the sum of the
\* weights in play is zero, the overall score is 0 and the grade F
C6_DefinedOverall ==
  (pc \in {"reports", "done"}) =>
    /\ score.overall # NaN
    /\ (Len(PresentWeights(variant, findings)) = 0) =>
         (score.overall = 0 /\ score.grade = "F")

\* the grade table of the specification, for the score s and the grade g
GradeTableHolds(s, g) ==
  /\ g \in {"A", "B", "C", "D", "F"}
  /\ g = "A" <=> s >= 90
  /\ g = "B" <=> (80 <= s /\ s < 90)
  /\ g = "C" <=> (70 <= s /\ s < 80)
  /\ g = "D" <=> (60 <= s /\ s < 70)
  /\ g = "F" <=> s < 60

GradeRank(g) ==
  CASE g = "F" -> 0 [] g = "D" -> 1 [] g = "C" -> 2 [] g = "B" -> 3 [] g = "A" -> 4

\* C7: for every integer s in 0..100 getGrade(s) is A iff s >= 90, B iff
\* 80 <= s < 90, C iff 70 <= s < 80, D iff 60 <= s < 70 and F iff s < 60; the
\* grade never decreases as s grows; and the grade calculateScore returns is
\* getGrade of the overall score it returns
C7_GradeMapping ==
  /\ \A s \in 0..100 : GradeTableHolds(s, getGrade(Num(s)))
  /\ \A s \in 0..99 : GradeRank(getGrade(Num(s))) <= GradeRank(getGrade(Num(s + 1)))
  /\ (pc = "reports") =>
       /\ score.grade = getGrade(score.overall)
       /\ (score.overall # NaN) => GradeTableHolds(score.overall \div Scale, score.grade)

C7_Witness ==
  /\ pc = "reports"
  /\ score.grade = "B"
  /\ score.overall >= Num(80)
  /\ score.overall < Num(90)

----------------------------------------------------------------------------
(* Claims about getAnalyzerScore, checked under SpecSub *)

\* C8: for every analyzer name and every finding, getAnalyzerScore returns an
\* integer between 0 and 100
C8_SubScoreClamped ==
  (pc = "scored") => (IsInteger(subScore) /\ 0 <= subScore /\ subScore <= Num(100))

\* the analyzers whose sub-score is derived from counts of problems
MonotoneNames ==
  {"eslint", "typescript", "security", "performance", "architecture",
   "bug-detection", "test-cases"}

\* C9: for eslint, typescript, security, performance, architecture,
\* bug-detection and test-cases, raising one count of the finding (errors,
\* warnings, vulnerabilities, bugs, securityRisks, potentialIssues,
\* performanceIssues, antiPatterns, missingTests) with every other field
\* held fixed never raises the analyzer's sub-score
C9_Monotone ==
  [][(pc = "scored" /\ pc' = "scored" /\ analyzer \in MonotoneNames
        /\ finding' # finding) =>
       ~(subScore' > subScore)]_vars

C9_Witness ==
  /\ pc = "scored"
  /\ analyzer = "security"
  /\ Has(finding, "vulnerabilities")
  /\ finding.vulnerabilities = MaxCount + 1
  /\ subScore < Num(100 - 20 * MaxCount)

\* C10: for an eslint finding with e errors and w warnings the sub-score is
\* max(0, 100 - (2 * e + w)); an absent count is 0
C10_LintScore ==
  (pc = "scored" /\ analyzer = "eslint") =>
    LET e == OrZero(finding, "errors")
        w == OrZero(finding, "warnings")
    IN  subScore = (IF 2 * e + w >= 100 THEN 0 ELSE Num(100 - (2 * e + w)))

C10_Witness ==
  /\ pc = "scored"
  /\ analyzer = "eslint"
  /\ Has(finding, "errors") /\ finding.errors = 3
  /\ Has(finding, "warnings") /\ finding.warnings = 2
  /\ subScore = Num(92)

----------------------------------------------------------------------------
(* AnalyzerBase.calculateWeightedCoverage and isCoreLogicFile               *)
(* (src/lib/analyzer-base.js).  Strings are TLA+ strings.                   *)

MaxFiles == 3        \* most per-file entries of a coverage summary

\* String.prototype.includes
StringIncludes(s, sub) ==
  \E i \in 1..(Len(s) - Len(sub) + 1) : SubSeq(s, i, i + Len(sub) - 1) = sub

\* path.basename for a path that does not end in '/'
basename(p) ==
  LET slashes == {i \in 1..Len(p) : SubSeq(p, i, i) = "/"}
      last == IF slashes = {} THEN 0 ELSE CHOOSE i \in slashes : \A j \in slashes : j <= i
  IN  SubSeq(p, last + 1, Len(p))

\* a variant of isCoreLogicFile that tests the whole path, not the base name
isCoreLogicFileByPath(p) ==
  \/ \E w \in {"controller", "service", "util", "helper", "config", "constant",
               "validation"} : StringIncludes(p, w)
  \/ ~(StringIncludes(p, "route") \/ StringIncludes(p, "middleware"))

isCoreLogicFile(p) ==
  LET fileName == basename(p)
  IN  IF StringIncludes(fileName, "controller") \/ StringIncludes(fileName, "service")
        THEN TRUE
      ELSE IF StringIncludes(fileName, "util") \/ StringIncludes(fileName, "helper")
        THEN TRUE
      ELSE IF StringIncludes(fileName, "config") \/ StringIncludes(fileName, "constant")
        THEN TRUE
      ELSE IF StringIncludes(fileName, "validation") THEN TRUE
      ELSE IF StringIncludes(fileName, "route") \/ StringIncludes(fileName, "middleware")
        THEN FALSE
      ELSE TRUE

\* fileCoverage.statements?.pct || 0
StatementsOf(fileCoverage) ==
  IF Has(fileCoverage, "statements") /\ Has(fileCoverage.statements, "pct")
    THEN fileCoverage.statements.pct
    ELSE 0

\* the sum of statements over the files F of the coverage data
RECURSIVE SumStatements(_, _)
SumStatements(data, F) ==
  IF F = {} THEN 0
  ELSE LET f == CHOOSE x \in F : TRUE
       IN  StatementsOf(data[f]) + SumStatements(data, F \ {f})

\* Math.round(num / den) for num >= 0 and den > 0
RoundRatio(num, den) == (2 * num + den) \div (2 * den)

\* calculateWeightedCoverage.  An average is the exact ratio sum / files (0
\* for no file); Math.round(x * 100) / 100 is the number of 1/Scale units
\* nearest to x.  breakdown.*.coverage, the unrounded average, is kept as
\* the pair <<sum, files>>
calculateWeightedCoverage(data) ==
  LET files == (DOMAIN data) \ {"total"}
      core == {f \in files : isCoreLogicFile(f)}
      infra == files \ core
      coreLogicCoverage == SumStatements(data, core)
      infrastructureCoverage == SumStatements(data, infra)
      coreLogicFiles == Cardinality(core)
      infrastructureFiles == Cardinality(infra)
      nc == IF coreLogicFiles > 0 THEN coreLogicFiles ELSE 1
      ni == IF infrastructureFiles > 0 THEN infrastructureFiles ELSE 1
  IN  [weightedScore |->
         RoundRatio(8 * coreLogicCoverage * ni + 2 * infrastructureCoverage * nc,
                    10 * nc * ni),
       coreLogicCoverage |-> RoundRatio(coreLogicCoverage, nc),
       infrastructureCoverage |-> RoundRatio(infrastructureCoverage, ni),
       coreLogicFiles |-> coreLogicFiles,
       infrastructureFiles |-> infrastructureFiles,
       breakdown |->
         [coreLogic |-> [coverage |-> <<coreLogicCoverage, nc>>,
                         files |-> coreLogicFiles,
                         points |-> RoundRatio(8 * coreLogicCoverage, nc * Scale)],
          infrastructure |-> [coverage |-> <<infrastructureCoverage, ni>>,
                              files |-> infrastructureFiles,
                              points |-> RoundRatio(2 * infrastructureCoverage,
                                                    ni * Scale)]]]

\* the file paths of a coverage summary
CoveragePaths ==
  {"src/user.service.js", "src/routes/index.js", "src/routes/user.route.js",
   "src/auth.middleware.js", "src/route.helper.js"}

\* the per-file entries: statement percentages, and an entry without statements
CoverageEntries ==
  {[statements |-> [pct |-> Num(p)]] : p \in {0, 50, 90, 100}} \cup {EmptyObject}

\* the coverage summaries over at most MaxFiles files, with and without 'total'
CoverageInputs ==
  LET perFile == UNION {[F -> CoverageEntries] :
                          F \in {G \in SUBSET CoveragePaths : Cardinality(G) <= MaxFiles}}
  IN  perFile \cup {Put(d, "total", [statements |-> [pct |-> Num(50)]]) : d \in perFile}

InitCov ==
  /\ variant = "lib"
  /\ project = "clean"
  /\ throwing = {}
  /\ options = EmptyObject
  /\ rulesConfig = [rules |-> << >>, categories |-> EmptyObject]
  /\ enabledAnalyzers = << >>
  /\ pc = "input"
  /\ idx = 0
  /\ findings = EmptyObject
  /\ executed = << >>
  /\ score = NoScore
  /\ reports = EmptyObject
  /\ results = InitialResults
  /\ NoSubScore
  /\ coverageData \in CoverageInputs
  /\ weightedCoverage = EmptyObject
  /\ validation = EmptyObject
  /\ rules = << >>
  /\ filePath = ""
  /\ rulesForFile = << >>
  /\ answered = EmptyObject
  /\ outcome = "none"
  /\ NoAux

\* results.weightedCoverage = this.calculateWeightedCoverage(coverageData)
CalculateWeightedCoverage ==
  /\ pc = "input"
  /\ weightedCoverage' = calculateWeightedCoverage(coverageData)
  /\ pc' = "weighted"
  /\ UNCHANGED <<variant, project, throwing, options, rulesConfig, enabledAnalyzers,
                 idx, findings, executed, score, reports, results, analyzer, finding,
                 subScore>>
  /\ UNCHANGED <<coverageData, validation, rules, filePath, rulesForFile, answered,
                 outcome>>
  /\ UNCHANGED auxVars

NextCov == CalculateWeightedCoverage

SpecCov == InitCov /\ [][NextCov]_vars

----------------------------------------------------------------------------
(* Claims about calculateWeightedCoverage, checked under SpecCov *)

CoreLogicWords ==
  {"controller", "service", "util", "helper", "config", "constant", "validation"}

\* the classification the specification gives: infrastructure only when the
\* base name matches route or middleware and no core-logic pattern
IsInfrastructure(p) ==
  /\ StringIncludes(basename(p), "route") \/ StringIncludes(basename(p), "middleware")
  /\ \A w \in CoreLogicWords : ~StringIncludes(basename(p), w)

CoveredFiles == (DOMAIN coverageData) \ {"total"}

InfrastructureFiles == {f \in CoveredFiles : IsInfrastructure(f)}

CoreFiles == CoveredFiles \ InfrastructureFiles

\* a class size as a divisor: the mean of an empty class counts as 0
Divisor(F) == IF F = {} THEN 1 ELSE Cardinality(F)

\* 0.8 * mean(core) + 0.2 * mean(infrastructure) as the ratio
\* WeightedNumerator / WeightedDenominator, in 1/Scale units
WeightedNumerator ==
  8 * SumStatements(coverageData, CoreFiles) * Divisor(InfrastructureFiles)
    + 2 * SumStatements(coverageData, InfrastructureFiles) * Divisor(CoreFiles)

WeightedDenominator == 10 * Divisor(CoreFiles) * Divisor(InfrastructureFiles)

\* the classes are counted as the specification classifies the files
ClassifiedAsSpecified ==
  /\ weightedCoverage.coreLogicFiles = Cardinality(CoreFiles)
  /\ weightedCoverage.infrastructureFiles = Cardinality(InfrastructureFiles)

----------------------------------------------------------------------------
(* RuleEngine.validateRules called on a rule set *)

RuleIds == {"a", "b"}

WithId(id) == [GoodRule EXCEPT !.id = id]

\* the object without the field k
Without(obj, k) == [f \in (DOMAIN obj) \ {k} |-> obj[f]]

\* a files field that is an array of glob patterns
FilesArray(patterns) == [isArray |-> TRUE, items |-> patterns]

\* the rules with the id: well-formed, and with one or two fields missing,
\* empty or malformed
RuleVariants(id) ==
  LET r == WithId(id)
  IN  {r}
      \cup {Without(r, f) : f \in {"category", "severity", "description", "pattern",
                                    "suggestion"}}
      \cup {[r EXCEPT !.description = ""], [r EXCEPT !.severity = "FATAL"]}
      \cup {[r EXCEPT !.pattern = q] : q \in InvalidPatterns}
      \cup {Put(r, "files", [isArray |-> FALSE]), Put(r, "files", FilesArray(<<"src/*.js">>))}
      \cup {Put(r, "example", [bad |-> "x", good |-> "y"]), Put(r, "example", [bad |-> "x"])}
      \cup {Without([r EXCEPT !.pattern = "("], "suggestion"),
            [r EXCEPT !.pattern = "(", !.severity = "FATAL"]}

RuleInputs ==
  UNION {RuleVariants(id) : id \in RuleIds}
    \cup {Without(GoodRule, "id"), [GoodRule EXCEPT !.id = ""]}

CategoryInputs ==
  {EmptyObject,
   ("style" :> [priority |-> "HIGH", description |-> "layout"]),
   ("style" :> [priority |-> "URGENT"])}

RuleSetInputs ==
  {[rules |-> rs, categories |-> cs] :
     rs \in SeqsUpTo(RuleInputs, MaxRules), cs \in CategoryInputs}

InitRules ==
  /\ variant = "lib"
  /\ project = "clean"
  /\ throwing = {}
  /\ options = EmptyObject
  /\ rulesConfig \in RuleSetInputs
  /\ enabledAnalyzers = << >>
  /\ pc = "input"
  /\ idx = 0
  /\ findings = EmptyObject
  /\ executed = << >>
  /\ score = NoScore
  /\ reports = EmptyObject
  /\ results = InitialResults
  /\ NoSubScore
  /\ NoEngine
  /\ NoAux

\* new RuleEngine(rulesConfig).validateRules()
ValidateRules ==
  /\ pc = "input"
  /\ rules' = rulesConfig.rules
  /\ validation' = validateRules(rulesConfig)
  /\ outcome' = "returned"
  /\ pc' = "validated"
  /\ UNCHANGED <<variant, project, throwing, options, rulesConfig, enabledAnalyzers,
                 idx, findings, executed, score, reports, results, analyzer, finding,
                 subScore>>
  /\ UNCHANGED <<coverageData, weightedCoverage, filePath, rulesForFile, answered>>
  /\ UNCHANGED auxVars

NextRules == ValidateRules

SpecRules == InitRules /\ [][NextRules]_vars

----------------------------------------------------------------------------
(* Claims about validateRules, checked under SpecRules *)

\* the positions of the rule list
RuleIndexes == 1..Len(rules)

\* the rule has all six required fields, non-empty, a severity of the
\* enumeration and a pattern that compiles; files, when given, is a list
WellFormed(rule) ==
  /\ \A i \in 1..Len(requiredFields) :
       Has(rule, requiredFields[i]) /\ rule[requiredFields[i]] # ""
  /\ rule.severity \in {"CRITICAL", "ERROR", "WARNING", "INFO"}
  /\ rule.pattern \notin InvalidPatterns
  /\ Has(rule, "files") => rule.files.isArray

\* no other rule of the list carries the id of the rule at position i
IdUnique(i) ==
  \A j \in RuleIndexes \ {i} : ~(Has(rules[j], "id") /\ rules[j].id = rules[i].id)

\* the entries of the sequence q that satisfy Test
CountIn(q, Test(_)) == Cardinality({k \in 1..Len(q) : Test(q[k])})

\* the error e is reported against the rule at position i: by its index for
\* a missing field, by its id otherwise
ReportedAgainst(e, i) ==
  IF e.kind = "missing" THEN e.rule = i - 1
  ELSE Has(rules[i], "id") /\ e.id = rules[i].id

C13_MissingFieldReported ==
  (pc = "validated") =>
    \A i \in RuleIndexes : \A k \in 1..Len(requiredFields) :
      LET field == requiredFields[k]
      IN  (~Has(rules[i], field) \/ rules[i][field] = "") =>
            /\ validation.valid = FALSE
            /\ CountIn(validation.errors,
                       LAMBDA e : e.kind = "missing" /\ e.field = field /\ e.rule = i - 1) = 1

C13_Witness ==
  /\ pc = "validated"
  /\ Len(rules) = 2
  /\ WellFormed(rules[1])
  /\ Has(rules[2], "description") /\ rules[2].description = ""
  /\ validation.valid = FALSE
  /\ Len(validation.errors) = 1

\* C14: for a rule whose pattern is not a valid regular expression and which
\* is otherwise well-formed, with an id no other rule has, validateRules
\* returns (it does not throw) with valid = false and exactly one error
\* reported against that rule, the invalid-pattern error
C14_InvalidRegexOneError ==
  (pc = "validated") =>
    \A i \in RuleIndexes :
      (/\ Has(rules[i], "pattern") /\ rules[i].pattern \in InvalidPatterns
       /\ WellFormed([rules[i] EXCEPT !.pattern = "x"])
       /\ IdUnique(i)) =>
        /\ outcome = "returned"
        /\ validation.valid = FALSE
        /\ CountIn(validation.errors, LAMBDA e : ReportedAgainst(e, i)) = 1
        /\ CountIn(validation.errors,
                   LAMBDA e : e.kind = "regex" /\ e.id = rules[i].id) = 1

C14_Witness ==
  /\ pc = "validated"
  /\ Len(rules) = 2
  /\ WellFormed(rules[1])
  /\ Has(rules[2], "pattern") /\ rules[2].pattern = "[a-"
  /\ WellFormed([rules[2] EXCEPT !.pattern = "x"])
  /\ IdUnique(2)
  /\ Len(validation.errors) = 1

\* C15: when two rules of the set carry the same id, validateRules returns
\* valid = false with a duplicate-id error for that id, whether the other
\* fields of the two rules are valid, missing or malformed
C15_DuplicateIdReported ==
  (pc = "validated") =>
    \A i \in RuleIndexes : \A j \in RuleIndexes :
      (i < j /\ Has(rules[i], "id") /\ Has(rules[j], "id")
         /\ rules[i].id # "" /\ rules[i].id = rules[j].id) =>
        /\ validation.valid = FALSE
        /\ CountIn(validation.errors,
                   LAMBDA e : e.kind = "duplicate" /\ e.id = rules[i].id) >= 1

C15_Witness ==
  /\ pc = "validated"
  /\ Len(rules) = 2
  /\ Has(rules[1], "id") /\ Has(rules[2], "id") /\ rules[1].id = rules[2].id
  /\ WellFormed(rules[1])
  /\ ~Has(rules[2], "pattern")
  /\ CountIn(validation.errors, LAMBDA e : e.kind = "duplicate") = 1

----------------------------------------------------------------------------
(* RuleEngine.getRulesForFile: glob pattern to RegExp, RegExp.test *)

\* the part of the string s from position i on
From(s, i) == IF i > Len(s) THEN "" ELSE SubSeq(s, i, Len(s))

StartsWith(s, prefix) == Len(s) >= Len(prefix) /\ SubSeq(s, 1, Len(prefix)) = prefix

\* s.replace(/from/g, to) for a literal from: every occurrence, left to
\* right, the text put in is not searched again
RECURSIVE ReplaceAll(_, _, _)
ReplaceAll(s, from, to) ==
  IF s = "" THEN ""
  ELSE IF StartsWith(s, from) THEN to \o ReplaceAll(From(s, Len(from) + 1), from, to)
  ELSE SubSeq(s, 1, 1) \o ReplaceAll(From(s, 2), from, to)

\* pattern.replace(/\*\*/g, '.*').replace(/\*/g, '[^/]*').replace(/\?/g, '.')
GlobToRegexSource(pattern) ==
  ReplaceAll(ReplaceAll(ReplaceAll(pattern, "**", ".*"), "*", "[^/]*"), "?", ".")

\* new RegExp(source) for the sources the translation yields: a sequence of
\* atoms, each '.', the class '[^/]' or a literal character, each possibly
\* followed by '*'
RECURSIVE RegExpOf(_)
RegExpOf(source) ==
  IF source = "" THEN << >>
  ELSE LET kind == IF StartsWith(source, "[^/]") THEN "notSlash"
                   ELSE IF StartsWith(source, ".") THEN "any" ELSE "char"
           width == IF kind = "notSlash" THEN 4 ELSE 1
           star == StartsWith(From(source, width + 1), "*")
       IN  << [kind |-> kind, char |-> SubSeq(source, 1, 1), star |-> star] >>
             \o RegExpOf(From(source, width + (IF star THEN 2 ELSE 1)))

\* the atom matches the character c
AtomMatches(atom, c) ==
  CASE atom.kind = "any" -> TRUE
    [] atom.kind = "notSlash" -> c # "/"
    [] OTHER -> c = atom.char

\* the atoms from the k-th on match some text of s that starts at position i
RECURSIVE MatchesAt(_, _, _, _)
MatchesAt(regex, k, s, i) ==
  IF k > Len(regex) THEN TRUE
  ELSE LET here == i <= Len(s) /\ AtomMatches(regex[k], SubSeq(s, i, i))
       IN  IF regex[k].star
             THEN MatchesAt(regex, k + 1, s, i) \/ (here /\ MatchesAt(regex, k, s, i + 1))
             ELSE here /\ MatchesAt(regex, k + 1, s, i + 1)

\* regex.test(s) for a regex without flags: a match anywhere in s
RegExpTest(regex, s) == \E i \in 1..(Len(s) + 1) : MatchesAt(regex, 1, s, i)

\* the callback of this.rules.filter in getRulesForFile
AppliesTo(rule, path) ==
  IF ~Has(rule, "files") \/ Len(rule.files.items) = 0 THEN TRUE
  ELSE \E n \in 1..Len(rule.files.items) :
         RegExpTest(RegExpOf(GlobToRegexSource(rule.files.items[n])), path)

\* the new array this.rules.filter returns
getRulesForFile(rs, path) == SelectSeq(rs, LAMBDA rule : AppliesTo(rule, path))

----------------------------------------------------------------------------
(* RuleEngine operations on a loaded rule list: getRulesForFile, addRule,
   removeRule, updateRule *)

\* the rule lists after getRulesForFile when the filtered list replaces
\* this.rules
RulesAfterQueryFiltered(rs, path) == getRulesForFile(rs, path)

\* this.rules after getRulesForFile: filter builds a new array and the
\* callback assigns nothing
RulesAfterQuery(rs, path) == rs

\* the index findIndex returns for the id, 0 standing for -1
FindIndex(rs, ruleId) ==
  IF \E i \in 1..Len(rs) : Has(rs[i], "id") /\ rs[i].id = ruleId
    THEN CHOOSE i \in 1..Len(rs) :
           /\ Has(rs[i], "id") /\ rs[i].id = ruleId
           /\ \A j \in 1..(i - 1) : ~(Has(rs[j], "id") /\ rs[j].id = ruleId)
    ELSE 0

\* addRule: the list after the call, and whether the call threw
addRule(rs, rule) ==
  IF Len(validateRule(rule, Len(rs)).errors) > 0 THEN [rules |-> rs, threw |-> TRUE]
  ELSE IF \E i \in 1..Len(rs) : Has(rs[i], "id") /\ rs[i].id = rule.id
    THEN [rules |-> rs, threw |-> TRUE]
  ELSE [rules |-> Append(rs, rule), threw |-> FALSE]

\* removeRule: the list after the call, and whether the call threw
removeRule(rs, ruleId) ==
  LET index == FindIndex(rs, ruleId)
  IN  IF index = 0 THEN [rules |-> rs, threw |-> TRUE]
      ELSE [rules |-> SubSeq(rs, 1, index - 1) \o SubSeq(rs, index + 1, Len(rs)),
            threw |-> FALSE]

\* updateRule: the list after the call, and whether the call threw
updateRule(rs, ruleId, updates) ==
  LET index == FindIndex(rs, ruleId)
  IN  IF index = 0 THEN [rules |-> rs, threw |-> TRUE]
      ELSE LET updatedRule == Merge(updates, rs[index])
           IN  IF Len(validateRule(updatedRule, index - 1).errors) > 0
                 THEN [rules |-> rs, threw |-> TRUE]
                 ELSE [rules |-> [rs EXCEPT ![index] = updatedRule], threw |-> FALSE]

\* glob lists of the loaded rules
FilesInputs == {<<"src/**/*.ts">>, <<"*.ts", "src/?.js">>}

\* loaded rules: valid, with and without a files list
EngineRules ==
  {WithId(id) : id \in RuleIds}
    \cup {Put(WithId(id), "files", FilesArray(g)) : id \in RuleIds, g \in FilesInputs}

\* rule lists a RuleEngine holds after loading a valid configuration:
\* ids pairwise distinct
EngineRuleLists ==
  {<< >>} \cup {<<r>> : r \in EngineRules}
    \cup (IF MaxRules >= 2
            THEN {<<r1, r2>> : r1 \in {r \in EngineRules : r.id = "a"},
                               r2 \in {r \in EngineRules : r.id = "b"}}
            ELSE {})

\* paths asked about
PathInputs == {"src/a/b/c.ts", "src/a.js", "lib/a.md"}

\* rules handed to addRule: a new id with an empty files list, an id of the
\* loaded rules, a rule without suggestion
AddInputs ==
  {Put(WithId("c"), "files", FilesArray(<< >>)), WithId("a"), Without(WithId("c"), "suggestion")}

\* ids handed to removeRule and updateRule
IdInputs == RuleIds \cup {"c"}

\* updates handed to updateRule
UpdateInputs == {[id |-> "b"], [pattern |-> "("], [severity |-> "INFO"]}

InitEngine ==
  /\ variant = "lib"
  /\ project = "clean"
  /\ throwing = {}
  /\ options = EmptyObject
  /\ rulesConfig = [rules |-> << >>]
  /\ enabledAnalyzers = << >>
  /\ pc = "loaded"
  /\ idx = 0
  /\ findings = EmptyObject
  /\ executed = << >>
  /\ score = NoScore
  /\ reports = EmptyObject
  /\ results = InitialResults
  /\ NoSubScore
  /\ coverageData = EmptyObject
  /\ weightedCoverage = EmptyObject
  /\ validation = EmptyObject
  /\ rules \in EngineRuleLists
  /\ filePath = ""
  /\ rulesForFile = << >>
  /\ answered = EmptyObject
  /\ outcome = "none"
  /\ NoAux

EngineUnchanged ==
  /\ UNCHANGED <<variant, project, throwing, options, rulesConfig, enabledAnalyzers,
                 idx, findings, executed, score, reports, results, analyzer, finding,
                 subScore, coverageData, weightedCoverage, validation>>
  /\ UNCHANGED auxVars

\* ruleEngine.getRulesForFile(path); answered keeps the first answer given for
\* each path since the rule list last changed
GetRulesForFile ==
  /\ pc \in {"loaded", "queried", "queried-again", "changed"}
  /\ \E path \in PathInputs :
       /\ filePath' = path
       /\ rulesForFile' = getRulesForFile(rules, path)
       /\ rules' = RulesAfterQuery(rules, path)
       /\ answered' = IF Has(answered, path) THEN answered
                      ELSE Put(answered, path, getRulesForFile(rules, path))
       /\ pc' = IF Has(answered, path) THEN "queried-again" ELSE "queried"
  /\ outcome' = "returned"
  /\ EngineUnchanged

\* the state after a call that may change the rule list
Changed(result) ==
  /\ rules' = result.rules
  /\ outcome' = IF result.threw THEN "threw" ELSE "returned"
  /\ pc' = "changed"
  /\ filePath' = ""
  /\ rulesForFile' = << >>
  /\ answered' = EmptyObject
  /\ EngineUnchanged

\* ruleEngine.addRule(rule)
AddRule ==
  /\ pc \in {"loaded", "queried", "queried-again", "changed"}
  /\ Len(rules) <= MaxRules
  /\ \E rule \in AddInputs : Changed(addRule(rules, rule))

\* ruleEngine.removeRule(ruleId)
RemoveRule ==
  /\ pc \in {"loaded", "queried", "queried-again", "changed"}
  /\ \E ruleId \in IdInputs : Changed(removeRule(rules, ruleId))

\* ruleEngine.updateRule(ruleId, updates)
UpdateRule ==
  /\ pc \in {"loaded", "queried", "queried-again", "changed"}
  /\ \E ruleId \in IdInputs, updates \in UpdateInputs :
       Changed(updateRule(rules, ruleId, updates))

NextEngine == GetRulesForFile \/ AddRule \/ RemoveRule \/ UpdateRule

SpecEngine == InitEngine /\ [][NextEngine]_vars

----------------------------------------------------------------------------
(* Claims about getRulesForFile and the mutation operations *)

\* no '/' among the first k characters of s
NoSeparator(s, k) == \A i \in 1..k : SubSeq(s, i, i) # "/"

\* the glob matches the whole path when '**' stands for any sequence of
\* characters, '*' for any sequence without '/', '?' for exactly one
\* character and every other character for itself
RECURSIVE GlobMatches(_, _)
GlobMatches(glob, path) ==
  IF glob = "" THEN path = ""
  ELSE IF StartsWith(glob, "**")
    THEN \E k \in 0..Len(path) : GlobMatches(From(glob, 3), From(path, k + 1))
  ELSE IF StartsWith(glob, "*")
    THEN \E k \in 0..Len(path) :
           NoSeparator(path, k) /\ GlobMatches(From(glob, 2), From(path, k + 1))
  ELSE IF StartsWith(glob, "?")
    THEN path # "" /\ GlobMatches(From(glob, 2), From(path, 2))
  ELSE /\ path # ""
       /\ SubSeq(path, 1, 1) = SubSeq(glob, 1, 1)
       /\ GlobMatches(From(glob, 2), From(path, 2))

\* the rule has no files restriction
Unrestricted(rule) == ~Has(rule, "files") \/ Len(rule.files.items) = 0

\* the rules of the list that apply to the path under the glob semantics
RulesApplying(rs, path) ==
  SelectSeq(rs, LAMBDA rule :
    \/ Unrestricted(rule)
    \/ \E n \in 1..Len(rule.files.items) : GlobMatches(rule.files.items[n], path))

\* the last operation was a getRulesForFile call
Queried == pc \in {"queried", "queried-again"}

\* C16: getRulesForFile returns the rules without files restriction and the
\* rules one of whose globs matches the path, '**' matching any sequence of
\* characters including '/', '*' any sequence excluding '/', '?' exactly one
\* character; 'src/**/*.ts' matches 'src/a/b/c.ts'
C16_GlobSemantics ==
  Queried => rulesForFile = RulesApplying(rules, filePath)

C18_IdsStayUnique ==
  \A i, j \in 1..Len(rules) : i # j => rules[i].id # rules[j].id

----------------------------------------------------------------------------
(* Claims about the selection of reports *)

\* the properties of the reports object
Rendered == DOMAIN reports

\* no report method is made to throw
RenderersSound == \A r \in DOMAIN Renderer(variant) : r \notin throwing

\* C19: with no explicit report list, a finished run renders exactly the
\* HTML report in plain mode and exactly the HTML report and the AI narrative
\* summary when AI analysis or AI prompts are requested
C19_DefaultReports ==
  (pc = "done" /\ ~Has(options, "reporters") /\ RenderersSound) =>
    Rendered = IF isAITesting(options) THEN {"html", "aiSummary"} ELSE {"html"}

\* C20: with an explicit report list, a finished run renders exactly the
\* listed types the renderer recognizes, whatever the mode; an unknown type
\* is skipped
C20_ExplicitListAuthoritative ==
  (pc = "done" /\ Has(options, "reporters") /\ RenderersSound) =>
    Rendered = {Renderer(variant)[options.reporters[i]] :
                  i \in {n \in 1..Len(options.reporters) :
                           options.reporters[n] \in DOMAIN Renderer(variant)}}

----------------------------------------------------------------------------
(* runAnalyzers call by call: each await of the loop is a call of the
   analyzer's method and, later, its return or its throw *)

\* the analyzer names of a configuration: three whose finding comes from an
\* external command, two stored under a camel-case property, one unknown
RunPool == {"typescript", "security", "custom-rules", "bug-detection", "lint"}

RunLists == SeqsUpTo(RunPool, MaxAnalyzers)

\* the projects, and one on which every external command times out
RunProjects == Projects \cup {"stalled"}

\* await: the loop body goes on only when the promise of the call has settled
MayCall(pending) == pending = {}

InitRun ==
  /\ variant \in Variants
  /\ project \in RunProjects
  /\ throwing \in SUBSET {"security"}
  /\ options = EmptyObject
  /\ rulesConfig = [rules |-> <<GoodRule>>, categories |-> EmptyObject]
  /\ enabledAnalyzers \in RunLists
  /\ pc = IF Len(enabledAnalyzers) = 0 THEN "score" ELSE "analyzers"
  /\ idx = 1
  /\ findings = EmptyObject
  /\ executed = << >>
  /\ score = NoScore
  /\ reports = EmptyObject
  /\ results = InitialResults
  /\ NoSubScore
  /\ NoEngine
  /\ NoAux

\* the switch of one iteration: the case calls the analyzer's method, the
\* default case warns and the loop goes to the next name
CallAnalyzer ==
  /\ pc = "analyzers"
  /\ idx <= Len(enabledAnalyzers)
  /\ MayCall(running)
  /\ LET analyzerName == enabledAnalyzers[idx]
     IN  IF Recognized(variant, analyzerName)
           THEN /\ running' = running \cup {analyzerName}
                /\ executed' = Append(executed, analyzerName)
                /\ UNCHANGED <<idx, pc>>
           ELSE /\ idx' = idx + 1
                /\ pc' = IF idx' > Len(enabledAnalyzers) THEN "score" ELSE "analyzers"
                /\ UNCHANGED <<running, executed>>
  /\ UNCHANGED <<variant, project, throwing, options, rulesConfig, enabledAnalyzers,
                 findings, score, reports, results, analyzer, finding, subScore>>
  /\ UNCHANGED engineVars
  /\ UNCHANGED <<enabledReporters, invoked, sourceFiles, fileIdx, ruleIdx, lastIndex, match,
                 violations, customRules>>

\* the called method returns and its finding is stored, or it throws and the
\* catch records the failure; then the loop goes to the next name
SettleAnalyzer ==
  /\ pc = "analyzers"
  /\ \E analyzerName \in running :
       /\ findings' = Iteration(variant, project, throwing, findings, analyzerName)
       /\ running' = running \ {analyzerName}
  /\ idx' = idx + 1
  /\ pc' = IF idx' > Len(enabledAnalyzers) THEN "score" ELSE "analyzers"
  /\ UNCHANGED <<variant, project, throwing, options, rulesConfig, enabledAnalyzers,
                 executed, score, reports, results, analyzer, finding, subScore>>
  /\ UNCHANGED engineVars
  /\ UNCHANGED <<enabledReporters, invoked, sourceFiles, fileIdx, ruleIdx, lastIndex, match,
                 violations, customRules>>

NextRun == CallAnalyzer \/ SettleAnalyzer \/ CalculateScore \/ GenerateReports

SpecRun == InitRun /\ [][NextRun]_vars

----------------------------------------------------------------------------
(* AnalyzerBase.checkCustomRules: every source file against the rules
   getRulesForFile returns for it *)

MaxSources == 2      \* most source files
MaxContent == 7      \* longest file content of the inputs, in characters

\* the violations array is cut off one past the most matches that patterns
\* matching no empty text can have in the inputs
MaxViolations == MaxRules * MaxSources * MaxContent + 1

\* new RegExp(rule.pattern, 'gm') for the patterns of the inputs: a sequence
\* of atoms, each '^', '.', an escaped character or a literal character, each
\* possibly followed by '*'
RECURSIVE RulePatternOf(_)
RulePatternOf(source) ==
  IF source = "" THEN << >>
  ELSE LET kind == IF StartsWith(source, "^") THEN "lineStart"
                   ELSE IF StartsWith(source, ".") THEN "any" ELSE "char"
           width == IF StartsWith(source, "\\") THEN 2 ELSE 1
           star == StartsWith(From(source, width + 1), "*")
       IN  << [kind |-> kind, char |-> SubSeq(source, width, width), star |-> star] >>
             \o RulePatternOf(From(source, width + (IF star THEN 2 ELSE 1)))

\* the atom matches the character c; '.' matches no line terminator
AtomMatchesChar(atom, c) ==
  IF atom.kind = "any" THEN c # "\n" ELSE c = atom.char

\* the position after the text the atoms from the k-th on match at position
\* i of s, as the backtracking matcher finds it (a starred atom takes as many
\* characters as the rest allows), or 0 when they match nothing there; with
\* the m flag '^' matches at the start of s and after a line terminator
RECURSIVE MatchEnd(_, _, _, _)
MatchEnd(regex, k, s, i) ==
  IF k > Len(regex) THEN i
  ELSE IF regex[k].kind = "lineStart"
    THEN IF i = 1 \/ SubSeq(s, i - 1, i - 1) = "\n" THEN MatchEnd(regex, k + 1, s, i) ELSE 0
  ELSE LET here == i <= Len(s) /\ AtomMatchesChar(regex[k], SubSeq(s, i, i))
       IN  IF regex[k].star
             THEN LET more == IF here THEN MatchEnd(regex, k, s, i + 1) ELSE 0
                  IN  IF more # 0 THEN more ELSE MatchEnd(regex, k + 1, s, i)
             ELSE IF here THEN MatchEnd(regex, k + 1, s, i + 1) ELSE 0

\* the leftmost match of regex in s that starts at position i or later
RECURSIVE ExecFrom(_, _, _)
ExecFrom(regex, s, i) ==
  IF i > Len(s) + 1 THEN null
  ELSE LET e == MatchEnd(regex, 1, s, i)
       IN  IF e = 0 THEN ExecFrom(regex, s, i + 1)
           ELSE [found |-> TRUE, index |-> i - 1, end |-> e - 1,
                 text |-> IF e > i THEN SubSeq(s, i, e - 1) ELSE ""]

\* regex.exec(s) of a regex with the g flag whose lastIndex is last: the
\* leftmost match that starts at offset last or later; index and end are
\* offsets from 0, end being the lastIndex exec leaves behind.  Without a
\* match exec returns null and sets lastIndex to 0
RegExpExec(regex, s, last) == ExecFrom(regex, s, last + 1)

\* s.split('\n').length
RECURSIVE SplitLength(_)
SplitLength(s) ==
  IF s = "" THEN 1
  ELSE (IF SubSeq(s, 1, 1) = "\n" THEN 1 ELSE 0) + SplitLength(From(s, 2))

\* content.substring(0, match.index).split('\n').length
LineNumber(content, index) ==
  SplitLength(IF index = 0 THEN "" ELSE SubSeq(content, 1, index))

\* the record pushed for a match
ViolationOf(relativePath, content, rule, m) ==
  [file |-> relativePath,
   line |-> LineNumber(content, m.index),
   rule |-> rule.id,
   severity |-> rule.severity,
   message |-> rule.description,
   suggestion |-> rule.suggestion,
   matchedText |-> m.text]

\* rules of a validated rule set: ids differ, patterns compile; the third
\* and fourth match the empty text
ScanRules ==
  {[WithId("a") EXCEPT !.pattern = "aa"],
   Put([WithId("b") EXCEPT !.pattern = "a\\.b"], "files", FilesArray(<<"src/?.ts">>)),
   [WithId("c") EXCEPT !.pattern = "a*"],
   [WithId("d") EXCEPT !.pattern = "^", !.severity = "INFO"]}

\* rule lists with pairwise distinct ids
ScanRuleLists ==
  {q \in SeqsUpTo(ScanRules, MaxRules) : \A i, j \in 1..Len(q) : i # j => q[i].id # q[j].id}

\* the source files: relative path and content
SourcePool ==
  {[path |-> "src/a.ts", content |-> "aaa\na.b"],
   [path |-> "src/b.js", content |-> "a.b\n\naa"],
   [path |-> "src/c.ts", content |-> "bb"]}

SourceLists ==
  {q \in SeqsUpTo(SourcePool, MaxSources) : \A i, j \in 1..Len(q) : i # j => q[i] # q[j]}

InitCustom ==
  /\ variant = "lib"
  /\ project = "clean"
  /\ throwing = {}
  /\ options = EmptyObject
  /\ rulesConfig = [rules |-> << >>, categories |-> EmptyObject]
  /\ enabledAnalyzers = << >>
  /\ pc = "custom"
  /\ idx = 0
  /\ findings = EmptyObject
  /\ executed = << >>
  /\ score = NoScore
  /\ reports = EmptyObject
  /\ results = InitialResults
  /\ NoSubScore
  /\ coverageData = EmptyObject
  /\ weightedCoverage = EmptyObject
  /\ validation = EmptyObject
  /\ rules \in ScanRuleLists
  /\ filePath = ""
  /\ rulesForFile = << >>
  /\ answered = EmptyObject
  /\ outcome = "none"
  /\ enabledReporters = << >>
  /\ invoked = << >>
  /\ running = {}
  /\ sourceFiles \in SourceLists
  /\ fileIdx = 0
  /\ ruleIdx = 0
  /\ lastIndex = 0
  /\ match = null
  /\ violations = << >>
  /\ customRules = EmptyObject

CustomUnchanged ==
  /\ UNCHANGED <<variant, project, throwing, options, rulesConfig, enabledAnalyzers,
                 idx, findings, executed, score, reports, results, analyzer, finding,
                 subScore>>
  /\ UNCHANGED <<coverageData, weightedCoverage, validation, rules, answered, outcome>>
  /\ UNCHANGED <<enabledReporters, invoked, running, sourceFiles>>

\* the entry: without rules the method returns at once, otherwise the
\* forEach over the source files begins
BeginScan ==
  /\ pc = "custom"
  /\ IF Len(rules) = 0
       THEN /\ customRules' = [success |-> FALSE, error |-> "No custom rules defined"]
            /\ pc' = "customDone"
            /\ UNCHANGED fileIdx
       ELSE /\ fileIdx' = 1
            /\ pc' = "file"
            /\ UNCHANGED customRules
  /\ UNCHANGED <<filePath, rulesForFile, ruleIdx, lastIndex, match, violations>>
  /\ CustomUnchanged

\* the next file: rulesForFile = ruleEngine.getRulesForFile(relativePath)
EnterFile ==
  /\ pc = "file"
  /\ fileIdx <= Len(sourceFiles)
  /\ filePath' = sourceFiles[fileIdx].path
  /\ rulesForFile' = getRulesForFile(rules, sourceFiles[fileIdx].path)
  /\ ruleIdx' = 1
  /\ lastIndex' = 0
  /\ pc' = "rule"
  /\ UNCHANGED <<fileIdx, match, violations, customRules>>
  /\ CustomUnchanged

\* one evaluation of the while condition for the current rule:
\* match = regex.exec(content).  A match enters the body, null ends the loop
\* and the next rule begins with a new RegExp
ExecPattern ==
  /\ pc = "rule"
  /\ ruleIdx <= Len(rulesForFile)
  /\ \E rule \in {rulesForFile[ruleIdx]}, content \in {sourceFiles[fileIdx].content} :
       \E m \in {RegExpExec(RulePatternOf(rule.pattern), content, lastIndex)} :
         /\ match' = m
         /\ lastIndex' = m.end
         /\ IF m.found
              THEN /\ pc' = "push"
                   /\ UNCHANGED ruleIdx
              ELSE /\ ruleIdx' = ruleIdx + 1
                   /\ UNCHANGED pc
  /\ UNCHANGED <<filePath, rulesForFile, fileIdx, violations, customRules>>
  /\ CustomUnchanged

\* the body of the while loop: the record of the match is pushed and the
\* condition is evaluated again.  Records past MaxViolations are not kept
PushViolation ==
  /\ pc = "push"
  /\ \E record \in {ViolationOf(filePath, sourceFiles[fileIdx].content,
                                rulesForFile[ruleIdx], match)} :
       violations' = IF Len(violations) < MaxViolations
                       THEN Append(violations, record) ELSE violations
  /\ pc' = "rule"
  /\ UNCHANGED <<filePath, rulesForFile, fileIdx, ruleIdx, lastIndex, match, customRules>>
  /\ CustomUnchanged

\* the rules of the file are through
LeaveFile ==
  /\ pc = "rule"
  /\ ruleIdx > Len(rulesForFile)
  /\ fileIdx' = fileIdx + 1
  /\ pc' = "file"
  /\ UNCHANGED <<filePath, rulesForFile, ruleIdx, lastIndex, match, violations, customRules>>
  /\ CustomUnchanged

\* the files are through: the result record
FinishScan ==
  /\ pc = "file"
  /\ fileIdx > Len(sourceFiles)
  /\ customRules' = [success |-> TRUE, violations |-> Len(violations), details |-> violations]
  /\ pc' = "customDone"
  /\ UNCHANGED <<filePath, rulesForFile, fileIdx, ruleIdx, lastIndex, match, violations>>
  /\ CustomUnchanged

NextCustom == BeginScan \/ EnterFile \/ ExecPattern \/ PushViolation \/ LeaveFile \/ FinishScan

SpecCustom == InitCustom /\ [][NextCustom]_vars

\* the scan under a scheduler that lets the method run whenever it can
SpecCustomLive == SpecCustom /\ WF_vars(NextCustom)

----------------------------------------------------------------------------
(* analyze() called on a tool whose results come from an earlier run *)

\* this.results as an earlier analyze() left it
PreviousResults ==
  [findings |-> ("security" :> FlawedFinding("security")),
   reports |-> ("json" :> [report |-> "json"]),
   score |-> Num(15), grade |-> "F"]

InitAgain ==
  /\ variant \in Variants
  /\ project \in Projects
  /\ throwing \in SUBSET ThrowPool
  /\ options \in OptionsDomain
  /\ rulesConfig = [rules |-> << >>, categories |-> EmptyObject]
  /\ enabledAnalyzers = << >>
  /\ pc = "start"
  /\ idx = 0
  /\ findings = EmptyObject
  /\ executed = << >>
  /\ score = NoScore
  /\ reports = EmptyObject
  /\ results = PreviousResults
  /\ NoSubScore
  /\ NoEngine
  /\ NoAux

SpecAgain == InitAgain /\ [][Next]_vars

----------------------------------------------------------------------------
(* Claims about failures inside generateReports *)

\* the listed report types the switch has a renderer for
RequestedRenderers ==
  {enabledReporters[i] : i \in 1..Len(enabledReporters)} \cap DOMAIN Renderer(variant)

InvokedSet == {invoked[i] : i \in 1..Len(invoked)}

\* C21: a renderer that throws does not make generateReports throw; every
\* requested renderer is invoked all the same, and the reports map has an
\* entry for exactly the requested renderers that did not throw
C21_RendererIsolation ==
  /\ (pc = "failed") => invoked = << >>
  /\ (pc = "done") =>
       /\ InvokedSet = RequestedRenderers
       /\ Rendered = {Renderer(variant)[r] : r \in RequestedRenderers \ throwing}

\* a finished run whose first requested renderer threw and a later one
\* produced its report
C21_Witness ==
  /\ pc = "done"
  /\ Len(enabledReporters) >= 2
  /\ enabledReporters[1] \in throwing \cap RequestedRenderers
  /\ enabledReporters[2] \in RequestedRenderers \ throwing
  /\ Renderer(variant)[enabledReporters[2]] \in Rendered
  /\ Renderer(variant)[enabledReporters[1]] \notin Rendered

----------------------------------------------------------------------------
(* Claims about runAnalyzers call by call, checked under SpecRun *)

\* the analyzers whose finding comes from an external command
CommandAnalyzers == {"eslint", "typescript", "security", "tests", "coverage", "dependencies"}

\* C22: when the external command of an analyzer times out, the finding
\* stored for the analyzer is marked success false, and the run goes on with
\* the remaining analyzers
C22_TimeoutIsFailure ==
  (project = "stalled") =>
    /\ \A i \in 1..Processed :
         LET a == enabledAnalyzers[i]
         IN  (a \in CommandAnalyzers /\ Recognized(variant, a)) =>
               /\ Has(findings, Dispatch(variant)[a])
               /\ MarkedFailed(findings[Dispatch(variant)[a]])
    /\ AnalyzersDone => executed = RecognizedPrefix(Len(enabledAnalyzers))


\* the requested names whose call has settled without a throw
SettledSuccessfully ==
  {enabledAnalyzers[i] : i \in {j \in 1..Processed :
      Recognized(variant, enabledAnalyzers[j]) /\ enabledAnalyzers[j] \notin throwing}}

\* C26: the analyzers run one at a time in listed order: at most one call is
\* pending, it is the call of the name the loop stands at, the calls made so
\* far are the recognized names up to there in listed order, and the finding
\* of each analyzer that returned is stored under the name it was requested by
C26_SequentialInOrder ==
  /\ Cardinality(running) <= 1
  /\ (running # {}) => (pc = "analyzers" /\ running = {enabledAnalyzers[idx]})
  /\ executed = RecognizedPrefix(IF running # {} THEN idx ELSE Processed)
  /\ \A a \in SettledSuccessfully :
       Has(findings, a) /\ findings[a] = Returned(project, a)

\* C27: every analyzer of the weight table that was requested and returned a
\* finding not marked failed has an entry in score.breakdown, with the
\* sub-score of that finding
C27_KeysAgree ==
  (pc \in {"reports", "done"}) =>
    \A a \in SettledSuccessfully \cap WeightedNames(variant) :
      ~MarkedFailed(Returned(project, a)) =>
        /\ Has(score.breakdown, a)
        /\ score.breakdown[a].score = getAnalyzerScore(variant, a, Returned(project, a))

----------------------------------------------------------------------------
(* Claims about single sub-scores, checked under SpecSub *)

\* C24: the complexity sub-score is the finding's score field whenever the
\* field is present with a value in 0..100, and 100 when the field is absent
C24_ComplexityPassThrough ==
  (pc = "scored" /\ analyzer = "complexity") =>
    /\ (Has(finding, "score") /\ finding.score >= 0 /\ finding.score <= Num(100)) =>
         subScore = finding.score
    /\ ~Has(finding, "score") => subScore = Num(100)


\* a finding without weighted coverage data whose raw statement coverage is c
RawCoverage(c) == [coverage |-> [statements |-> [num |-> c]]]

\* the sub-score was computed by the fallback branch from a raw statement
\* coverage of at least 0
FallbackCase ==
  /\ pc = "scored"
  /\ variant = "p1"
  /\ analyzer = "tests"
  /\ ~Has(finding, "weightedCoverage")
  /\ Has(finding, "coverage") /\ ~IsNumber(finding.coverage)
  /\ Has(finding.coverage, "statements") /\ IsNumber(finding.coverage.statements)
  /\ finding.coverage.statements.num >= 0

\* min(100, 1.1 c) from 70 on, c from 40 to below 70, 0.8 c below 40
FallbackCurve(c) ==
  IF c >= Num(70) THEN (IF 11 * c >= 10 * Num(100) THEN Num(100) ELSE (11 * c) \div 10)
  ELSE IF c >= Num(40) THEN c
  ELSE (8 * c) \div 10

----------------------------------------------------------------------------
(* Claims about the breakdown, checked under SpecScore *)

\* the sum of score * weight over the entries S of the breakdown
RECURSIVE BreakdownTotal(_, _)
BreakdownTotal(breakdown, S) ==
  IF S = {} THEN 0
  ELSE LET a == CHOOSE x \in S : TRUE
           rest == BreakdownTotal(breakdown, S \ {a})
       IN  IF rest = NaN \/ breakdown[a].score = NaN THEN NaN
           ELSE rest + breakdown[a].score * breakdown[a].weight

\* C28: overall is the rounded percentage that the breakdown's entries,
\* each with its shown score times its weight, make of the sum of all weights
\* of the table; entries of findings marked success false count like the others
C28_BreakdownConsistent ==
  (pc = "reports") =>
    score.overall =
      OverallOf(BreakdownTotal(score.breakdown, DOMAIN score.breakdown),
                MaxScoreUpTo(Weights(variant), Len(Weights(variant))))

----------------------------------------------------------------------------
(* Claims about this.results, checked under SpecAgain *)

\* C29: analyze() replaces this.results only as a whole, in the step that
\* ends a run whose findings, score and reports have all been produced, and
\* then results.grade is the grade of results.score; until then, and after
\* a run that threw, getResults() returns what it returned before the call
C29_ResultsReplacedAsAWhole ==
  /\ []((pc # "done") => results = PreviousResults)
  /\ [][ (results' # results) =>
            /\ pc = "reports" /\ pc' = "done"
            /\ results' = [findings |-> findings, reports |-> reports',
                           score |-> score.overall, grade |-> getGrade(score.overall)]
            /\ DOMAIN findings' = DOMAIN findings ]_vars

\* a run that threw at the rule validation, with the earlier results in place
C29_Witness == pc = "failed" /\ results = PreviousResults /\ findings = EmptyObject

\* a finished run: the earlier results are replaced by the run's own
C29_Replaced ==
  /\ pc = "done"
  /\ results # PreviousResults
  /\ results.findings = findings /\ DOMAIN findings # {}
  /\ results.reports = reports /\ DOMAIN reports # {}
  /\ results.grade = getGrade(results.score)

----------------------------------------------------------------------------
(* C23: custom-rule matching *)

\* the matches of regex in s from position p on, left to right and without
\* overlap: each is the leftmost match not before the end of the one before,
\* and the search moves one character on after a match of the empty text
RECURSIVE MatchesFrom(_, _, _)
MatchesFrom(regex, s, p) ==
  LET starts == {i \in p..(Len(s) + 1) : MatchEnd(regex, 1, s, i) # 0}
  IN  IF starts = {} THEN << >>
      ELSE LET i == CHOOSE x \in starts : \A y \in starts : x <= y
               e == MatchEnd(regex, 1, s, i)
           IN  << [offset |-> i - 1, text |-> IF e > i THEN SubSeq(s, i, e - 1) ELSE ""] >>
                 \o MatchesFrom(regex, s, IF e > i THEN e ELSE i + 1)

\* the newline characters before the offset
NewlinesBefore(s, offset) ==
  Cardinality({k \in 1..offset : SubSeq(s, k, k) = "\n"})

\* the records the claim expects for one rule in one file
RecordsOfRule(file, rule) ==
  LET ms == MatchesFrom(RulePatternOf(rule.pattern), file.content, 1)
  IN  [n \in 1..Len(ms) |->
         [file |-> file.path,
          line |-> 1 + NewlinesBefore(file.content, ms[n].offset),
          rule |-> rule.id,
          severity |-> rule.severity,
          message |-> rule.description,
          suggestion |-> rule.suggestion,
          matchedText |-> ms[n].text]]

RECURSIVE RecordsOfRules(_, _, _)
RecordsOfRules(file, rs, k) ==
  IF k > Len(rs) THEN << >>
  ELSE RecordsOfRule(file, rs[k]) \o RecordsOfRules(file, rs, k + 1)

\* the records the claim expects for the files from the n-th on
RECURSIVE RecordsOfFiles(_)
RecordsOfFiles(n) ==
  IF n > Len(sourceFiles) THEN << >>
  ELSE RecordsOfRules(sourceFiles[n], getRulesForFile(rules, sourceFiles[n].path), 1)
         \o RecordsOfFiles(n + 1)

ExpectedRecords == RecordsOfFiles(1)

IsPrefix(q, r) == Len(q) <= Len(r) /\ SubSeq(r, 1, Len(q)) = q

\* no pattern of the rule list matches the empty text
NoEmptyMatch ==
  \A n \in 1..Len(rules) : MatchEnd(RulePatternOf(rules[n].pattern), 1, "", 1) = 0

\* C23: the records checkCustomRules has pushed are at every moment an
\* initial part of the list that holds, file by file and rule by rule of
\* getRulesForFile, one record per non-overlapping match with the line being
\* 1 plus the newline characters before the match offset; a returned
\* successful finding holds that whole list and its violations field is the
\* number of records
C23_OneRecordPerMatch ==
  /\ IsPrefix(violations, ExpectedRecords)
  /\ (pc = "customDone" /\ Len(rules) > 0) =>
       /\ customRules.details = ExpectedRecords
       /\ customRules.violations = Len(customRules.details)

\* the same statement for rule lists none of whose patterns matches the
\* empty text
C23_WithoutEmptyMatches == NoEmptyMatch => C23_OneRecordPerMatch

\* a finished scan with records on different lines
C23_Finished ==
  /\ pc = "customDone"
  /\ Len(rules) > 0
  /\ \E m, n \in 1..Len(violations) : violations[m].line # violations[n].line

----------------------------------------------------------------------------
(* C30: termination of checkCustomRules *)

\* C30: for every validated rule list and every file content
\* checkCustomRules returns: the scan reaches its result
C30_Terminates == <>(pc = "customDone")

\* the scan returns when no pattern matches the empty text
C30_TerminatesWithoutEmptyMatches == NoEmptyMatch => <>(pc = "customDone")

\* the rule lists of the scan pass validateRules
C30_RulesValidated ==
  validateRules([rules |-> rules, categories |-> EmptyObject]).valid

============================================================================
